---- MODULE Spec2Model ----
(***************************************************************************)
(* A model of the conversational slot-filling service: the in-memory       *)
(* ConversationManager (conversation_manager.py), the EntityParser         *)
(* (entity_parser.py), the CronConverter (cron_converter.py), the          *)
(* VectorSearchManager (vector_search.py) and the request handlers that    *)
(* drive them (main.py).                                                   *)
(*                                                                         *)
(* Python values are represented uniformly:                                *)
(*   - a dict is a function whose DOMAIN is the set of its keys;           *)
(*   - a str slot value and a list-of-str slot value are both a sequence   *)
(*     of strings, the empty sequence standing for the falsy values        *)
(*     "" and [];                                                          *)
(*   - an Optional argument that the code tests with "is not None" is a    *)
(*     sequence of length 0 (None) or 1 (the value).                       *)
(***************************************************************************)
EXTENDS Integers, Sequences, FiniteSets, TLC

(***************************************************************************)
(* Bounds of the model.                                                    *)
(***************************************************************************)
MaxTurns == 2          \* turns kept per session in the manager-level model

MaxHistory == 3        \* a chat turn starts only on a shorter turn history

MaxDocs == 2           \* records the cache collection can hold

SessionIds == {"s1", "s2"}   \* the uuid4 values create_session can draw

VARIABLES
  sessions,   \* ConversationManager.sessions: session_id -> session dict
  used,       \* session ids already drawn by uuid4 (never drawn again)
  last,       \* the last direct call: its name, arguments and return value
  fn,         \* a pure function under test: its input and its result
  cache,      \* the ai_conversations collection, in insertion order
  stream,     \* the /chat/stream generator in flight and where it stands
  conf,       \* the /confirm handler waiting for the Go API
  turn        \* the last handler step: what it read, decided and wrote

cmVars == <<sessions, used, last>>

notCM == <<fn, cache, stream, conf, turn>>   \* what the manager-level model leaves alone

vars == <<sessions, used, last, fn, cache, stream, conf, turn>>

(***************************************************************************)
(* Python helpers.                                                         *)
(***************************************************************************)
EmptyDict == [k \in {} |-> <<>>]

\* bool(value) for a str or list value
Truthy(v) == v # <<>>

\* d.update(e)
DictUpdate(d, e) ==
  [k \in (DOMAIN d) \cup (DOMAIN e) |-> IF k \in DOMAIN e THEN e[k] ELSE d[k]]

\* [x for x in seq if P(x)]
RECURSIVE Filter(_, _)
Filter(seq, keep) ==
  IF seq = <<>> THEN <<>>
  ELSE (IF Head(seq) \in keep THEN <<Head(seq)>> ELSE <<>>) \o Filter(Tail(seq), keep)

None == <<>>
Some(x) == <<x>>

(***************************************************************************)
(* conversation_manager.py                                                 *)
(***************************************************************************)

\* the field list of create_session and _update_missing_fields
all_fields ==
  <<"merchant_id", "report_type", "status_filter",
    "output_format", "cron_schedule", "email_recipients">>

\* the list checked by check_completeness
required_fields ==
  <<"merchant_id", "output_format", "cron_schedule", "email_recipients">>

\* the session dict written by create_session
NewSession(user_id, language) ==
  [ user_id              |-> user_id,
    language             |-> language,
    conversation_history |-> <<>>,
    collected_data       |-> EmptyDict,
    missing_fields       |-> all_fields,
    next_action          |-> "ask_merchant",
    is_complete          |-> FALSE ]

\* missing = [f for f in all_fields if f not in collected or not collected[f]]
MissingOf(collected) ==
  Filter(all_fields,
         {f \in {all_fields[i] : i \in 1..Len(all_fields)} :
            f \notin DOMAIN collected \/ ~Truthy(collected[f])})

\* _update_missing_fields on one session dict
update_missing_fields(s) ==
  [s EXCEPT !.missing_fields = MissingOf(s.collected_data)]

\* update_session with the recomputation of missing_fields placed before the merge
UpdateSessionDict_stale(s, collected_data, missing_fields, next_action, is_complete) ==
  LET s1 == IF collected_data # EmptyDict
            THEN [update_missing_fields(s) EXCEPT
                    !.collected_data = DictUpdate(@, collected_data)]
            ELSE s
      s2 == IF missing_fields # None
            THEN [s1 EXCEPT !.missing_fields = missing_fields[1]]
            ELSE s1
      s3 == IF next_action # ""
            THEN [s2 EXCEPT !.next_action = next_action]
            ELSE s2
  IN IF is_complete # None THEN [s3 EXCEPT !.is_complete = is_complete[1]] ELSE s3

\* update_session with the slot map replaced by the delta
UpdateSessionDict_replacing(s, collected_data, missing_fields, next_action, is_complete) ==
  LET s1 == IF collected_data # EmptyDict
            THEN update_missing_fields([s EXCEPT !.collected_data = collected_data])
            ELSE s
      s2 == IF missing_fields # None THEN [s1 EXCEPT !.missing_fields = missing_fields[1]]
            ELSE s1
      s3 == IF next_action # "" THEN [s2 EXCEPT !.next_action = next_action] ELSE s2
  IN IF is_complete # None THEN [s3 EXCEPT !.is_complete = is_complete[1]] ELSE s3

\* update_session with a merge that keeps the value a key already has
UpdateSessionDict_keep_first(s, collected_data, missing_fields, next_action, is_complete) ==
  LET s1 == IF collected_data # EmptyDict
            THEN update_missing_fields(
                   [s EXCEPT !.collected_data = DictUpdate(collected_data, @)])
            ELSE s
      s2 == IF missing_fields # None
            THEN [s1 EXCEPT !.missing_fields = missing_fields[1]]
            ELSE s1
      s3 == IF next_action # ""
            THEN [s2 EXCEPT !.next_action = next_action]
            ELSE s2
  IN IF is_complete # None THEN [s3 EXCEPT !.is_complete = is_complete[1]] ELSE s3

\* update_session on one existing session dict
UpdateSessionDict(s, collected_data, missing_fields, next_action, is_complete) ==
  LET s1 == IF collected_data # EmptyDict
            THEN update_missing_fields(
                   [s EXCEPT !.collected_data = DictUpdate(@, collected_data)])
            ELSE s
      s2 == IF missing_fields # None
            THEN [s1 EXCEPT !.missing_fields = missing_fields[1]]
            ELSE s1
      s3 == IF next_action # ""
            THEN [s2 EXCEPT !.next_action = next_action]
            ELSE s2
      s4 == IF is_complete # None
            THEN [s3 EXCEPT !.is_complete = is_complete[1]]
            ELSE s3
  IN s4

\* update_session: the new sessions map and the returned bool
update_session(ss, sid, collected_data, missing_fields, next_action, is_complete) ==
  IF sid \notin DOMAIN ss
  THEN [sessions |-> ss, ret |-> FALSE]
  ELSE [sessions |-> [ss EXCEPT ![sid] =
                        UpdateSessionDict(@, collected_data, missing_fields,
                                          next_action, is_complete)],
        ret |-> TRUE]

\* add_message that keeps only the new turn
add_message_truncating(ss, sid, role, content) ==
  IF sid \notin DOMAIN ss
  THEN [sessions |-> ss, ret |-> FALSE]
  ELSE [sessions |-> [ss EXCEPT ![sid].conversation_history =
                        <<[role |-> role, content |-> content]>>],
        ret |-> TRUE]

\* add_message: the new sessions map and the returned bool
add_message(ss, sid, role, content) ==
  IF sid \notin DOMAIN ss
  THEN [sessions |-> ss, ret |-> FALSE]
  ELSE [sessions |-> [ss EXCEPT ![sid].conversation_history =
                        Append(@, [role |-> role, content |-> content])],
        ret |-> TRUE]

\* check_completeness without the report_type default
FillDefaults_no_report_type(collected) ==
  LET c1 == IF "status_filter" \notin DOMAIN collected
            THEN DictUpdate(collected, [k \in {"status_filter"} |-> <<"PAID", "CAPTURED">>])
            ELSE collected
  IN IF "timezone" \notin DOMAIN c1
     THEN DictUpdate(c1, [k \in {"timezone"} |-> <<"Asia/Jakarta">>])
     ELSE c1

\* check_completeness with the timezone default written unconditionally
FillDefaults_overwrite(collected) ==
  DictUpdate(FillDefaults_no_report_type(
               IF "report_type" \notin DOMAIN collected
               THEN DictUpdate(collected, [k \in {"report_type"} |-> <<"transaction">>])
               ELSE collected),
             [k \in {"timezone"} |-> <<"Asia/Jakarta">>])

\* the defaults check_completeness writes into the live slot map
FillDefaults(collected) ==
  LET c1 == IF "status_filter" \notin DOMAIN collected
            THEN DictUpdate(collected, [k \in {"status_filter"} |-> <<"PAID", "CAPTURED">>])
            ELSE collected
      c2 == IF "report_type" \notin DOMAIN c1
            THEN DictUpdate(c1, [k \in {"report_type"} |-> <<"transaction">>])
            ELSE c1
      c3 == IF "timezone" \notin DOMAIN c2
            THEN DictUpdate(c2, [k \in {"timezone"} |-> <<"Asia/Jakarta">>])
            ELSE c2
  IN c3

\* the loop over required_fields of check_completeness
RequiredComplete(collected) ==
  \A i \in 1..Len(required_fields) :
     /\ required_fields[i] \in DOMAIN collected
     /\ Truthy(collected[required_fields[i]])

\* check_completeness: the new sessions map (defaults filled) and the returned bool
check_completeness(ss, sid) ==
  IF sid \notin DOMAIN ss
  THEN [sessions |-> ss, ret |-> FALSE]
  ELSE LET filled == FillDefaults(ss[sid].collected_data)
       IN [sessions |-> [ss EXCEPT ![sid].collected_data = filled],
           ret |-> RequiredComplete(filled)]

\* the priority cascade of determine_next_action on a slot map
NextActionOf(collected) ==
  IF "merchant_id" \notin DOMAIN collected THEN "ask_merchant"
  ELSE IF "report_type" \notin DOMAIN collected THEN "ask_report_type"
  ELSE IF "status_filter" \notin DOMAIN collected THEN "ask_status"
  ELSE IF "output_format" \notin DOMAIN collected THEN "ask_format"
  ELSE IF "cron_schedule" \notin DOMAIN collected THEN "ask_schedule"
  ELSE IF "email_recipients" \notin DOMAIN collected THEN "ask_recipients"
  ELSE "confirm"

\* determine_next_action: the returned action tag
determine_next_action(ss, sid) ==
  IF sid \notin DOMAIN ss THEN "ask_merchant"
  ELSE NextActionOf(ss[sid].collected_data)

\* delete_session: the new sessions map and the returned bool
delete_session(ss, sid) ==
  IF sid \in DOMAIN ss
  THEN [sessions |-> [s \in (DOMAIN ss) \ {sid} |-> ss[s]], ret |-> TRUE]
  ELSE [sessions |-> ss, ret |-> FALSE]

(***************************************************************************)
(* Text.  A Python str is a sequence of characters; a character is a       *)
(* one-character string, except that a run of letters (a word of the       *)
(* vocabulary) may be kept as one element, which then behaves like its     *)
(* letters for the character classes below.                                *)
(***************************************************************************)
Digits == {"0", "1", "2", "3", "4", "5", "6", "7", "8", "9"}

\* [\*/\-,0-9], the character class of the direct cron pattern
CronClass == Digits \cup {"*", "/", "-", ","}

\* the characters of the model that are not \w
NonWordChars == {"*", "/", "-", ",", " ", "@", ".", ":"}

IsWordChar(c) == c \notin NonWordChars

Max(S) == CHOOSE x \in S : \A y \in S : y <= x

Min(S) == CHOOSE x \in S : \A y \in S : x <= y

\* the last index of the longest run of characters of class C that starts
\* at index i of s (i - 1 when s[i] is not in C): a greedy C*
RunEnd(s, i, C) ==
  LET ends == {j \in i..Len(s) : \A k \in i..j : s[k] \in C}
  IN IF ends = {} THEN i - 1 ELSE Max(ends)

\* \b between s[p] and s[p+1] (p = 0: start of text, p = Len(s): end)
Boundary(s, p) ==
  LET before == p >= 1 /\ IsWordChar(s[p])
      after  == p < Len(s) /\ IsWordChar(s[p + 1])
  IN before # after

\* " ".join(parts)
RECURSIVE JoinSpace(_)
JoinSpace(parts) ==
  IF parts = <<>> THEN <<>>
  ELSE IF Len(parts) = 1 THEN parts[1]
  ELSE parts[1] \o <<" ">> \o JoinSpace(Tail(parts))

\* s.strip().split(): the maximal runs of non-space characters
RECURSIVE SplitFrom(_, _)
SplitFrom(s, i) ==
  IF i > Len(s) THEN <<>>
  ELSE IF s[i] = " " THEN SplitFrom(s, i + 1)
  ELSE LET e == RunEnd(s, i, {c \in {s[k] : k \in 1..Len(s)} : c # " "})
       IN <<SubSeq(s, i, e)>> \o SplitFrom(s, e + 1)

Split(s) == SplitFrom(s, 1)

\* the value of a digit character
DigitVal(c) ==
  CASE c = "0" -> 0 [] c = "1" -> 1 [] c = "2" -> 2 [] c = "3" -> 3 [] c = "4" -> 4
    [] c = "5" -> 5 [] c = "6" -> 6 [] c = "7" -> 7 [] c = "8" -> 8 [] c = "9" -> 9

DigitChar(n) == CHOOSE c \in Digits : DigitVal(c) = n

\* int(s) succeeds: an optional sign and at least one digit
IsIntLiteral(s) ==
  LET body == IF s # <<>> /\ s[1] = "-" THEN Tail(s) ELSE s
  IN body # <<>> /\ \A k \in 1..Len(body) : body[k] \in Digits

RECURSIVE NatOf(_)
NatOf(ds) == IF ds = <<>> THEN 0 ELSE 10 * NatOf(SubSeq(ds, 1, Len(ds) - 1)) + DigitVal(ds[Len(ds)])

\* int(s) for an s that IsIntLiteral
IntOf(s) == IF s[1] = "-" THEN 0 - NatOf(Tail(s)) ELSE NatOf(s)

RECURSIVE NatStr(_)
NatStr(n) == IF n < 10 THEN <<DigitChar(n)>> ELSE NatStr(n \div 10) \o <<DigitChar(n % 10)>>

\* str(n)
IntStr(n) == IF n < 0 THEN <<"-">> \o NatStr(0 - n) ELSE NatStr(n)

\* s.zfill(2)
zfill2(s) ==
  IF Len(s) >= 2 THEN s
  ELSE IF s # <<>> /\ s[1] = "-" THEN <<"-", "0">>
  ELSE IF Len(s) = 1 THEN <<"0">> \o s
  ELSE <<"0", "0">>

\* the letters, for the case conversions and the character classes
LowerLetters == "abcdefghijklmnopqrstuvwxyz"

UpperLetters == "ABCDEFGHIJKLMNOPQRSTUVWXYZ"

\* the position of character c in the string abc, 0 when absent
IndexIn(c, abc) ==
  IF \E i \in 1..Len(abc) : SubSeq(abc, i, i) = c
  THEN CHOOSE i \in 1..Len(abc) : SubSeq(abc, i, i) = c
  ELSE 0

\* every character of the element a is a letter of abc
AllIn(a, abc) == Len(a) >= 1 /\ \A i \in 1..Len(a) : IndexIn(SubSeq(a, i, i), abc) > 0

IsUpperWord(a) == AllIn(a, UpperLetters)

IsLowerWord(a) == AllIn(a, LowerLetters)

\* a run of letters; the words of the model are all lower or all upper case
IsWord(a) == IsUpperWord(a) \/ IsLowerWord(a)

\* the elements of a text as one string each, converted letter by letter
RECURSIVE MapLetters(_, _, _)
MapLetters(a, from, to) ==
  IF a = "" THEN ""
  ELSE LET c == SubSeq(a, 1, 1)
           i == IndexIn(c, from)
       IN (IF i > 0 THEN SubSeq(to, i, i) ELSE c) \o MapLetters(Tail(a), from, to)

\* str.upper()
upper(s) == [i \in 1..Len(s) |-> MapLetters(s[i], LowerLetters, UpperLetters)]

\* str.lower()
lower(s) == [i \in 1..Len(s) |-> MapLetters(s[i], UpperLetters, LowerLetters)]

StartsWith(a, k) == Len(a) >= Len(k) /\ SubSeq(a, 1, Len(k)) = k

EndsWith(a, k) == Len(a) >= Len(k) /\ SubSeq(a, Len(a) - Len(k) + 1, Len(a)) = k

Contains(a, k) == \E i \in 1..(Len(a) - Len(k) + 1) : SubSeq(a, i, i + Len(k) - 1) = k

\* "kw in s" for a keyword kw given, like s, with each run of letters as one
\* element: the keyword may begin inside a word of s and end inside one
InText(kw, s) ==
  \E i \in 1..(Len(s) - Len(kw) + 1) :
    \A j \in 1..Len(kw) :
      LET a == s[i + j - 1]
          k == kw[j]
      IN IF Len(kw) = 1 THEN Contains(a, k)
         ELSE IF j = 1 THEN EndsWith(a, k)
         ELSE IF j = Len(kw) THEN StartsWith(a, k)
         ELSE a = k

\* any(kw in s for kw in kws)
AnyIn(kws, s) == \E kw \in kws : InText(kw, s)

\* the number of characters of s[i..j]
RECURSIVE Chars(_, _, _)
Chars(s, i, j) == IF j < i THEN 0 ELSE Len(s[i]) + Chars(s, i + 1, j)

(***************************************************************************)
(* re.search for the patterns of entity_parser.py.  A pattern is a         *)
(* sequence of elements; an element offers the positions at which it can   *)
(* end in the order the backtracking matcher tries them (greedy first).    *)
(* A literal word of a pattern is matched against a whole word of the      *)
(* text; where a pattern begins with a word that is the tail of another    *)
(* word of the vocabulary ("tiap" in "setiap") both are listed.            *)
(***************************************************************************)
L(w)     == [k |-> "lit", ws |-> {w}]      \* a literal word or character
ALT(ws)  == [k |-> "lit", ws |-> ws]       \* (?:a|b|c) of literal words
SP       == [k |-> "lit", ws |-> {" "}]    \* one literal blank
SPS      == [k |-> "run", cls |-> {" "}, cap |-> FALSE]     \* \s+
COLSPS   == [k |-> "run", cls |-> {":", " "}, cap |-> FALSE] \* [:\s]+
NUM      == [k |-> "run", cls |-> Digits, cap |-> TRUE]     \* (\d+)
FIELD    == [k |-> "field"]                \* (\d+|\*|[\*/\-,0-9]+)
WB       == [k |-> "b"]                    \* \b
ANY(ps)  == [k |-> "alt", ps |-> ps]       \* (?:p1|p2|...) of sub-patterns, in order
OPT(p)   == [k |-> "alt", ps |-> <<p, <<>>>>]   \* (?:p)?
ILIT(w)  == [k |-> "ilit", ws |-> {w}]     \* a literal word under re.IGNORECASE
\* a character class repeated at least min times, captured when cap; first
\* is the class of the leading character where the pattern gives it one
CLS(tag, min, cap) == [k |-> "cls", tag |-> tag, first |-> tag, min |-> min, cap |-> cap]
CLS1(first, tag, min, cap) ==
  [k |-> "cls", tag |-> tag, first |-> first, min |-> min, cap |-> cap]

\* the character classes of the merchant and email patterns
InClass(tag, a) ==
  CASE tag = "A-Z0-9_-/i" -> IsWord(a) \/ a \in Digits \cup {"_", "-"}
    [] tag = "A-Z0-9_-"   -> IsUpperWord(a) \/ a \in Digits \cup {"_", "-"}
    [] tag = "A-Z"        -> IsUpperWord(a)
    [] tag = "0-9"        -> a \in Digits
    [] tag = "A-Za-z0-9._%+-" -> IsWord(a) \/ a \in Digits \cup {".", "_", "%", "+", "-"}
    [] tag = "A-Za-z0-9.-"    -> IsWord(a) \/ a \in Digits \cup {".", "-"}
    [] tag = "A-Z|a-z"        -> IsWord(a) \/ a = "|"

\* the last index of the longest run of class tag that starts at index i
ClassEnd(s, i, tag) ==
  LET ends == {j \in i..Len(s) : \A k \in i..j : InClass(tag, s[k])}
  IN IF ends = {} THEN i - 1 ELSE Max(ends)

NoMatch == [ok |-> FALSE, caps |-> <<>>, start |-> 0, end |-> 0]

\* the elements of seq that satisfy the test, in order
RECURSIVE KeepEnds(_, _, _, _)
KeepEnds(seq, s, i, min) ==
  IF seq = <<>> THEN <<>>
  ELSE (IF Chars(s, i, Head(seq) - 1) >= min THEN <<Head(seq)>> ELSE <<>>)
         \o KeepEnds(Tail(seq), s, i, min)

\* hi, hi-1, ..., lo
Desc(hi, lo) == [n \in 1..(hi - lo + 1) |-> hi - n + 1]

\* the positions after element e matched at i, in the matcher's order
Cands(e, s, i) ==
  CASE e.k = "lit" -> IF i <= Len(s) /\ s[i] \in e.ws THEN <<i + 1>> ELSE <<>>
    [] e.k = "run" -> Desc(RunEnd(s, i, e.cls) + 1, i + 1)
    [] e.k = "field" ->
         Desc(RunEnd(s, i, Digits) + 1, i + 1)
           \o (IF i <= Len(s) /\ s[i] = "*" THEN <<i + 1>> ELSE <<>>)
           \o Desc(RunEnd(s, i, CronClass) + 1, i + 1)
    [] e.k = "b" -> IF Boundary(s, i - 1) THEN <<i>> ELSE <<>>
    [] e.k = "ilit" ->
         IF i <= Len(s) /\ MapLetters(s[i], UpperLetters, LowerLetters) \in e.ws
         THEN <<i + 1>> ELSE <<>>
    [] e.k = "cls" ->
         IF i <= Len(s) /\ InClass(e.first, s[i])
         THEN KeepEnds(Desc(ClassEnd(s, i, e.tag) + 1, i + 1), s, i, e.min)
         ELSE <<>>

Captures(e) == e.k = "field" \/ (e.k \in {"run", "cls"} /\ e.cap)

\* a or b for two match results: the first that matched
OrElse(a, b) == IF a.ok THEN a ELSE b

\* the match of element e from i to j followed by the match r of the rest
Extend(r, e, s, i, j) ==
  IF r.ok
  THEN [ok |-> TRUE, start |-> i, end |-> r.end,
        caps |-> (IF Captures(e) THEN <<SubSeq(s, i, j - 1)>> ELSE <<>>) \o r.caps]
  ELSE NoMatch

RECURSIVE MatchAt(_, _, _)
RECURSIVE MatchAlt(_, _, _, _)
RECURSIVE TryCands(_, _, _, _, _)

\* the pattern matched at position i: [ok, caps, start, end], caps the
\* captured groups
MatchAt(pat, s, i) ==
  IF pat = <<>> THEN [ok |-> TRUE, caps |-> <<>>, start |-> i, end |-> i]
  ELSE IF Head(pat).k = "alt" THEN MatchAlt(Head(pat).ps, Tail(pat), s, i)
  ELSE TryCands(Cands(Head(pat), s, i), Head(pat), Tail(pat), s, i)

\* the alternatives ps in order, each followed by the rest of the pattern
MatchAlt(ps, rest, s, i) ==
  IF ps = <<>> THEN NoMatch
  ELSE OrElse(MatchAt(Head(ps) \o rest, s, i), MatchAlt(Tail(ps), rest, s, i))

\* the end positions cs of element e in order, each followed by the rest
TryCands(cs, e, rest, s, i) ==
  IF cs = <<>> THEN NoMatch
  ELSE OrElse(Extend(MatchAt(rest, s, Head(cs)), e, s, i, Head(cs)),
              TryCands(Tail(cs), e, rest, s, i))

\* the leftmost match that starts at index from or later
SearchFrom(pat, s, from) ==
  LET hits == {i \in from..(Len(s) + 1) : MatchAt(pat, s, i).ok}
  IN IF hits = {} THEN NoMatch ELSE MatchAt(pat, s, Min(hits))

\* re.search(pat, s): the leftmost match
Search(pat, s) == SearchFrom(pat, s, 1)

\* re.findall(pat, s) for a pattern with one group or none: the group (or
\* the whole match) of each match, left to right, without overlap
RECURSIVE FindAllFrom(_, _, _)
FindAllFrom(pat, s, from) ==
  LET m == SearchFrom(pat, s, from)
  IN IF ~m.ok THEN <<>>
     ELSE <<(IF m.caps = <<>> THEN SubSeq(s, m.start, m.end - 1) ELSE m.caps[1])>>
            \o FindAllFrom(pat, s, IF m.end > m.start THEN m.end ELSE m.end + 1)

FindAll(pat, s) == FindAllFrom(pat, s, 1)

\* the match r of the pattern with index n of a list
Indexed(r, n) == [ok |-> r.ok, idx |-> n, caps |-> r.caps]

\* the match of the first pattern among those with an index in hits
FirstOf(hits, pats, s) ==
  IF hits = {} THEN [ok |-> FALSE, idx |-> 0, caps |-> <<>>]
  ELSE Indexed(Search(pats[Min(hits)].pat, s), Min(hits))

\* a loop over the patterns of a list that returns at the first one that
\* matches: [ok, idx, caps]
FirstMatch(pats, s) ==
  FirstOf({n \in 1..Len(pats) : Search(pats[n].pat, s).ok}, pats, s)

\* a or b for two values of which the falsy one is <<>>
Or(a, b) == IF a # <<>> THEN a ELSE b

(***************************************************************************)
(* entity_parser.py: _extract_cron.  The result is the cron str, or <<>>   *)
(* for None.                                                               *)
(***************************************************************************)

\* cron_pattern, the direct 5-part expression
cron_pattern == <<WB, FIELD, SPS, FIELD, SPS, FIELD, SPS, FIELD, SPS, FIELD, WB>>

\* r'setiap (\d+) menit|every (\d+) minute'; match.group(1) or match.group(2)
\* is the one number captured
minute_pattern ==
  <<ANY(<< <<L("setiap"), SP, NUM, SP, L("menit")>>,
           <<L("every"), SP, NUM, SP, ALT({"minute", "minutes"})>> >>)>>

\* r'setiap (\d+) jam|every (\d+) hour'
hour_pattern ==
  <<ANY(<< <<L("setiap"), SP, NUM, SP, L("jam")>>,
           <<L("every"), SP, NUM, SP, ALT({"hour", "hours"})>> >>)>>

day_names_id == <<"senin", "selasa", "rabu", "kamis", "jumat", "sabtu", "minggu">>

day_names_en ==
  <<"monday", "tuesday", "wednesday", "thursday", "friday", "saturday", "sunday">>

\* the weekday field each day name is given by the lambdas of day_patterns
day_numbers == <<"1", "2", "3", "4", "5", "6", "0">>

Weekly == ALT({"weekly", "mingguan"})

JamOpt == OPT(<<L("jam"), SPS>>)

HariOpt == OPT(<<L("hari"), SPS>>)

\* the seven families of day_patterns, each in the order senin .. minggu
DayFamily(n, d) ==
  CASE n = 1 -> <<L(day_names_id[d]), SPS, Weekly, SPS, JamOpt, NUM>>
    [] n = 2 -> <<Weekly, SPS, L(day_names_id[d]), SPS, JamOpt, NUM>>
    [] n = 3 -> <<L("setiap"), SPS, HariOpt, L(day_names_id[d]), SPS, JamOpt, NUM>>
    [] n = 4 -> <<ALT({"tiap", "setiap", "every"}), SPS, HariOpt, L(day_names_id[d]),
                  SPS, JamOpt, NUM>>
    [] n = 5 -> <<L("every"), SPS, L(day_names_en[d]), SPS, L("at"), SPS, NUM>>
    [] n = 6 -> <<WB, L(day_names_id[d]), SPS, JamOpt, NUM, WB>>

day_patterns ==
  [n \in 1..42 |-> [g   |-> "weekday",
                    pat |-> DayFamily(((n - 1) \div 7) + 1, ((n - 1) % 7) + 1),
                    wd  |-> day_numbers[((n - 1) % 7) + 1]]]

daily_patterns ==
  << [g |-> "daily", pat |-> <<L("setiap"), SP, L("hari"), SP, L("jam"), SP, NUM>>],
     [g |-> "daily", pat |-> <<L("every"), SP, L("day"), SP, L("at"), SP, NUM>>],
     [g |-> "daily", pat |-> <<L("daily"), SP, L("at"), SP, NUM>>],
     [g |-> "daily", pat |-> <<L("jam"), SP, NUM, SP, L("setiap"), SP,
                               ALT({"hari", "harian"})>>],
     [g |-> "daily", pat |-> <<ALT({"tiap", "setiap"}), SP, L("hari"), SP, L("jam"), SP,
                               NUM>>] >>

BulanOpt == OPT(<<ALT({"setiap", "tiap", "di"}), SP>>)

OrdOpt == OPT(<<ALT({"st", "nd", "rd", "th"})>>)

\* monthly_patterns; g tells what the groups are: day and hour, day only
\* (hour 8), or hour only (day 1)
monthly_patterns ==
  << [g |-> "dh", pat |-> <<L("setiap"), SP, L("tgl"), SP, NUM, SP, BulanOpt, L("bulan"),
                            SP, L("jam"), SP, NUM>>],
     [g |-> "dh", pat |-> <<ALT({"tiap", "setiap"}), SP, L("tgl"), SP, NUM, SP, BulanOpt,
                            L("bulan"), SP, L("jam"), SP, NUM>>],
     [g |-> "dh", pat |-> <<L("setiap"), SP, L("tgl"), SP, NUM, SP, L("jam"), SP, NUM>>],
     [g |-> "dh", pat |-> <<ALT({"tiap", "setiap"}), SP, L("tgl"), SP, NUM, SP, L("jam"),
                            SP, NUM>>],
     [g |-> "d",  pat |-> <<L("setiap"), SP, L("tgl"), SP, NUM>>],
     [g |-> "d",  pat |-> <<ALT({"tiap", "setiap"}), SP, L("tgl"), SP, NUM>>],
     [g |-> "d",  pat |-> <<L("tgl"), SP, NUM>>],
     [g |-> "dh", pat |-> <<L("setiap"), SP, L("tanggal"), SP, NUM, SP, L("jam"), SP, NUM>>],
     [g |-> "dh", pat |-> <<ALT({"tiap", "setiap"}), SP, L("tanggal"), SP, NUM, SP, L("jam"),
                            SP, NUM>>],
     [g |-> "dh", pat |-> <<L("tanggal"), SP, NUM, SP, L("setiap"), SP, L("bulan"), SP,
                            L("jam"), SP, NUM>>],
     [g |-> "dh", pat |-> <<L("tanggal"), SP, NUM, SP, L("tiap"), SP, L("bulan"), SP,
                            L("jam"), SP, NUM>>],
     [g |-> "d",  pat |-> <<L("setiap"), SP, L("tanggal"), SP, NUM>>],
     [g |-> "d",  pat |-> <<ALT({"tiap", "setiap"}), SP, L("tanggal"), SP, NUM>>],
     [g |-> "d",  pat |-> <<L("tanggal"), SP, NUM, SP, L("tiap"), SP,
                            ALT({"bulan", "bulanan"})>>],
     [g |-> "d",  pat |-> <<L("tanggal"), SP, NUM, SP, L("setiap"), SP,
                            ALT({"bulan", "bulanan"})>>],
     [g |-> "dh", pat |-> <<L("bulanan"), SP, L("tanggal"), SP, NUM, SP, L("jam"), SP, NUM>>],
     [g |-> "dh", pat |-> <<L("monthly"), SP, L("tanggal"), SP, NUM, SP, L("jam"), SP, NUM>>],
     [g |-> "dh", pat |-> <<L("every"), SP, NUM, OrdOpt, SP, L("at"), SP, NUM>>],
     [g |-> "dh", pat |-> <<L("monthly"), SP, L("on"), SP, NUM, OrdOpt, SP, L("at"), SP, NUM>>],
     [g |-> "dh", pat |-> <<NUM, OrdOpt, SP, L("of"), SP, L("every"), SP, L("month"), SP,
                            L("at"), SP, NUM>>],
     [g |-> "dh", pat |-> <<L("setiap"), SP, L("tanggal"), SP, NUM, SP, L("pukul"), SP, NUM>>],
     [g |-> "dh", pat |-> <<L("tanggal"), SP, NUM, SP, L("pukul"), SP, NUM>>],
     [g |-> "h",  pat |-> <<L("bulanan"), SP, L("jam"), SP, NUM>>],
     [g |-> "h",  pat |-> <<L("monthly"), SP, L("at"), SP, NUM>>] >>

\* f"{a} {b} {c} {d} {e}"
CronStr(a, b, c, d, e) == JoinSpace(<<a, b, c, d, e>>)

day_keywords ==
  { <<"senin">>, <<"selasa">>, <<"rabu">>, <<"kamis">>, <<"jumat">>, <<"sabtu">>,
    <<"minggu">>, <<"monday">>, <<"tuesday">>, <<"wednesday">>, <<"thursday">>,
    <<"friday">>, <<"saturday">>, <<"sunday">> }

\* PRIORITY 7: the day-part fallback
DayPart(message) ==
  IF AnyIn(day_keywords, lower(message)) THEN <<>>
  ELSE IF AnyIn({<<"pagi">>, <<"morning">>}, message)
       THEN CronStr(<<"0">>, <<"8">>, <<"*">>, <<"*">>, <<"*">>)
  ELSE IF AnyIn({<<"siang">>, <<"noon">>}, message)
       THEN CronStr(<<"0">>, <<"1", "2">>, <<"*">>, <<"*">>, <<"*">>)
  ELSE IF AnyIn({<<"sore">>, <<"afternoon">>}, message)
       THEN CronStr(<<"0">>, <<"1", "7">>, <<"*">>, <<"*">>, <<"*">>)
  ELSE IF AnyIn({<<"malam">>, <<"night">>}, message)
       THEN CronStr(<<"0">>, <<"2", "0">>, <<"*">>, <<"*">>, <<"*">>)
  ELSE <<>>

\* the patterns with the daily-hour loop moved in front of the weekday loop
cron_rules_daily_first ==
  << [g |-> "direct", pat |-> cron_pattern],
     [g |-> "minutes", pat |-> minute_pattern],
     [g |-> "hours", pat |-> hour_pattern] >>
    \o daily_patterns \o day_patterns \o monthly_patterns

\* the patterns of priorities 1 to 6 in the order the code tries them; g
\* tells which expression a match gives
cron_rules ==
  << [g |-> "direct", pat |-> cron_pattern],
     [g |-> "minutes", pat |-> minute_pattern],
     [g |-> "hours", pat |-> hour_pattern] >>
    \o day_patterns \o daily_patterns \o monthly_patterns

\* the expression for the match m of rule, or the day-part fallback
CronOf(m, rule, message) ==
  IF ~m.ok THEN DayPart(message)
  ELSE CASE rule.g = "direct" ->
              CronStr(m.caps[1], m.caps[2], m.caps[3], m.caps[4], m.caps[5])
         [] rule.g = "minutes" ->
              CronStr(<<"*", "/">> \o m.caps[1], <<"*">>, <<"*">>, <<"*">>, <<"*">>)
         [] rule.g = "hours" ->
              CronStr(<<"0">>, <<"*", "/">> \o m.caps[1], <<"*">>, <<"*">>, <<"*">>)
         [] rule.g = "weekday" -> CronStr(<<"0">>, m.caps[1], <<"*">>, <<"*">>, <<rule.wd>>)
         [] rule.g = "daily" -> CronStr(<<"0">>, m.caps[1], <<"*">>, <<"*">>, <<"*">>)
         [] rule.g = "dh" -> CronStr(<<"0">>, m.caps[2], m.caps[1], <<"*">>, <<"*">>)
         [] rule.g = "d" -> CronStr(<<"0">>, <<"8">>, m.caps[1], <<"*">>, <<"*">>)
         [] rule.g = "h" -> CronStr(<<"0">>, m.caps[1], <<"1">>, <<"*">>, <<"*">>)

\* the rule a match belongs to
RuleOf(m) == cron_rules[IF m.ok THEN m.idx ELSE 1]

\* the expression for the first matching rule
FirstRule(m, message) == CronOf(m, RuleOf(m), message)

\* _extract_cron(message)
extract_cron(message) == FirstRule(FirstMatch(cron_rules, message), message)

(***************************************************************************)
(* entity_parser.py: the other extractors and parse_message.  A value that *)
(* the code returns as None is <<>> here.                                  *)
(***************************************************************************)
Range(seq) == {seq[i] : i \in 1..Len(seq)}

\* [A-Z0-9_-]{3,} under re.IGNORECASE, captured
MID == CLS("A-Z0-9_-/i", 3, TRUE)

\* keyword_patterns
keyword_patterns ==
  << <<WB, ILIT("mid"), COLSPS, MID>>,
     <<ILIT("merchant"), OPT(<<SPS>>), ILIT("id"), COLSPS, MID>>,
     <<WB, ILIT("merchant"), SPS, MID>>,
     <<WB, ILIT("mid"), SPS, MID>> >>

keyword_stopwords ==
  { <<"ID">>, <<"TYPE">>, <<"STATUS">>, <<"FORMAT">>, <<"YANG">>, <<"APA">>, <<"BISA">>,
    <<"AJA">>, <<"SAJA">> }

\* pattern_extraction (no re.IGNORECASE); the one group of each pattern is
\* the whole match
pattern_extraction ==
  << <<WB, CLS("A-Z", 3, FALSE), CLS("0-9", 2, FALSE), WB>>,
     <<WB, CLS1("A-Z", "A-Z0-9_-", 5, FALSE), WB>>,
     <<WB, CLS("0-9", 5, FALSE), WB>> >>

pattern_stopwords ==
  { <<"REPORT">>, <<"TRANSAKSI">>, <<"LAPORAN">>, <<"EXCEL">>, <<"HARIAN">>, <<"SETIAP">>,
    <<"UNTUK">>, <<"DENGAN">>, <<"FORMAT">>, <<"KIRIM">>, <<"EMAIL">>, <<"HARI">>,
    <<"BULAN">>, <<"TAHUN">>, <<"TANGGAL">>, <<"YANG">>, <<"APA">>, <<"BISA">>, <<"AJA">>,
    <<"SAJA">>, <<"MERCHANT">> }

\* the first element of seq whose upper() is no stopword, upper-cased
RECURSIVE FirstKept(_, _)
FirstKept(seq, stop) ==
  IF seq = <<>> THEN <<>>
  ELSE IF upper(Head(seq)) \notin stop THEN upper(Head(seq))
  ELSE FirstKept(Tail(seq), stop)

\* the loop over pattern_extraction, from pattern n on
RECURSIVE PatternMerchant(_, _)
PatternMerchant(message, n) ==
  IF n > Len(pattern_extraction) THEN <<>>
  ELSE Or(FirstKept(FindAll(pattern_extraction[n], message), pattern_stopwords),
          PatternMerchant(message, n + 1))

\* match.group(1).upper() when the pattern matched and it is no stopword
KeywordKept(match) ==
  IF match.ok /\ upper(match.caps[1]) \notin keyword_stopwords
  THEN upper(match.caps[1]) ELSE <<>>

\* the loop over keyword_patterns, from pattern n on
RECURSIVE KeywordMerchant(_, _)
KeywordMerchant(message, n) ==
  IF n > Len(keyword_patterns) THEN <<>>
  ELSE Or(KeywordKept(Search(keyword_patterns[n], message)), KeywordMerchant(message, n + 1))

\* _extract_merchant_id(message)
extract_merchant_id(message) == Or(KeywordMerchant(message, 1), PatternMerchant(message, 1))

\* _extract_report_type(message)
extract_report_type(message) ==
  IF AnyIn({<<"transaksi">>, <<"transaction">>, <<"payment">>, <<"pembayaran">>}, message)
  THEN <<"transaction">>
  ELSE IF AnyIn({<<"settlement">>, <<"settle">>}, message) THEN <<"settlement">>
  ELSE IF AnyIn({<<"refund">>}, message) THEN <<"refund">>
  ELSE <<>>

\* _extract_status_filter(message)
extract_status_filter(message) ==
  IF AnyIn({<<"sukses">>, <<"success">>, <<"berhasil">>, <<"successful">>, <<"paid">>,
            <<"captured">>}, message)
  THEN <<"PAID", "CAPTURED">>
  ELSE IF AnyIn({<<"gagal">>, <<"failed">>, <<"failure">>, <<"expired">>, <<"cancel">>},
                message)
  THEN <<"FAILED", "EXPIRED", "CANCELLED">>
  ELSE IF AnyIn({<<"semua">>, <<"all">>, <<"seluruh">>}, message) THEN <<"ALL">>
  ELSE <<>>

\* _extract_date_range(message)
extract_date_range(message) ==
  IF AnyIn({<<"7", " ", "hari">>, <<"seminggu">>, <<"last", " ", "7", " ", "days">>,
            <<"past", " ", "7", " ", "days">>, <<"7", " ", "day">>}, message)
  THEN <<"last_7_days">>
  ELSE IF AnyIn({<<"3", "0", " ", "hari">>, <<"sebulan">>,
                 <<"last", " ", "3", "0", " ", "days">>,
                 <<"past", " ", "3", "0", " ", "days">>, <<"3", "0", " ", "day">>,
                 <<"last", " ", "month">>}, message)
  THEN <<"last_30_days">>
  ELSE IF AnyIn({<<"minggu", " ", "ini">>, <<"this", " ", "week">>}, message)
  THEN <<"this_week">>
  ELSE IF AnyIn({<<"minggu", " ", "lalu">>, <<"last", " ", "week">>}, message)
  THEN <<"last_week">>
  ELSE IF AnyIn({<<"bulan", " ", "ini">>, <<"this", " ", "month">>}, message)
  THEN <<"this_month">>
  ELSE IF AnyIn({<<"hari", " ", "ini">>, <<"today">>}, message) THEN <<"today">>
  ELSE IF AnyIn({<<"kemarin">>, <<"yesterday">>}, message) THEN <<"yesterday">>
  ELSE <<>>

\* _extract_output_format(message)
extract_output_format(message) ==
  IF AnyIn({<<"excel">>, <<"xlsx">>, <<".", "xlsx">>}, message) THEN <<"xlsx">>
  ELSE IF AnyIn({<<"csv">>, <<".", "csv">>}, message) THEN <<"csv">>
  ELSE IF AnyIn({<<"pdf">>, <<".", "pdf">>}, message) THEN <<"pdf">>
  ELSE <<>>

\* _extract_timezone(message)
extract_timezone(message) ==
  IF InText(<<"wib">>, message) THEN <<"Asia/Jakarta">>
  ELSE IF InText(<<"wita">>, message) THEN <<"Asia/Makassar">>
  ELSE IF InText(<<"wit">>, message) THEN <<"Asia/Jayapura">>
  ELSE <<>>

\* the result dict of _extract_schedule, or EmptyDict for None
\* _extract_schedule with the timezone attached only when the message names one
ScheduleDict_named_only(timezone, cron) ==
  IF cron = <<>> THEN EmptyDict
  ELSE [k \in {"cron_schedule"} \cup (IF timezone = <<>> THEN {} ELSE {"timezone"}) |->
          IF k = "cron_schedule" THEN cron ELSE timezone]

ScheduleDict(timezone, cron) ==
  IF cron = <<>> THEN EmptyDict
  ELSE [k \in {"timezone", "cron_schedule"} |->
          IF k = "cron_schedule" THEN cron ELSE Or(timezone, <<"Asia/Jakarta">>)]

\* _extract_schedule(message)
extract_schedule(message) == ScheduleDict(extract_timezone(message), extract_cron(message))

\* email_pattern
email_pattern ==
  <<WB, CLS("A-Za-z0-9._%+-", 1, FALSE), L("@"), CLS("A-Za-z0-9.-", 1, FALSE), L("."),
    CLS("A-Z|a-z", 2, FALSE), WB>>

\* _extract_emails(message): the list, or <<>> for None
extract_emails(message) == FindAll(email_pattern, message)

\* entities[key] = value when the value is truthy
PutIf(entities, key, value) ==
  IF Truthy(value) THEN DictUpdate(entities, [k \in {key} |-> value]) ELSE entities

\* parse_message after the merchant step: the other extractors in turn
ParseRest(message, message_lower, entities) ==
  PutIf(DictUpdate(PutIf(PutIf(PutIf(PutIf(entities,
          "report_type", extract_report_type(message_lower)),
          "status_filter", extract_status_filter(message_lower)),
          "date_range", extract_date_range(message_lower)),
          "output_format", extract_output_format(message_lower)),
          extract_schedule(message_lower)),
        "email_recipients", extract_emails(message))

\* the authorization error returned in place of the entities
MerchantError(merchant_id, allowed) ==
  [k \in {"_merchant_error", "_allowed_merchants"} |->
     IF k = "_merchant_error" THEN merchant_id ELSE allowed]

\* the merchant merchant_id is refused by the allow-list (None or Some(list))
NotAllowed(merchant_id, allowed_merchant_ids) ==
  /\ merchant_id # <<>>
  /\ allowed_merchant_ids # None
  /\ merchant_id \notin Range(allowed_merchant_ids[1])

\* parse_message without its early return: the error keys are set and
\* parsing goes on
ParseWith_no_return(merchant_id, message, allowed_merchant_ids) ==
  IF NotAllowed(merchant_id, allowed_merchant_ids)
  THEN ParseRest(message, lower(message),
                 MerchantError(merchant_id, allowed_merchant_ids[1]))
  ELSE ParseRest(message, lower(message), PutIf(EmptyDict, "merchant_id", merchant_id))

\* parse_message from the extracted merchant_id on
ParseWith(merchant_id, message, allowed_merchant_ids) ==
  IF NotAllowed(merchant_id, allowed_merchant_ids)
  THEN MerchantError(merchant_id, allowed_merchant_ids[1])
  ELSE ParseRest(message, lower(message), PutIf(EmptyDict, "merchant_id", merchant_id))

\* parse_message(message, allowed_merchant_ids); allowed_merchant_ids is
\* None or Some(list)
parse_message(message, allowed_merchant_ids) ==
  ParseWith(extract_merchant_id(message), message, allowed_merchant_ids)

(***************************************************************************)
(* cron_converter.py.  A rendering is [raised, text]: raised when the      *)
(* call ends in an exception, else text is the returned str.               *)
(***************************************************************************)
Returned(text) == [raised |-> FALSE, text |-> text]

Raised == [raised |-> TRUE, text |-> <<>>]

\* self.days_id.get(weekday, f"hari ke-{weekday}")
days_id(weekday) ==
  CASE weekday = <<"0">> -> <<"Minggu">> [] weekday = <<"1">> -> <<"Senin">>
    [] weekday = <<"2">> -> <<"Selasa">> [] weekday = <<"3">> -> <<"Rabu">>
    [] weekday = <<"4">> -> <<"Kamis">> [] weekday = <<"5">> -> <<"Jumat">>
    [] weekday = <<"6">> -> <<"Sabtu">>
    [] OTHER -> <<"hari ke-">> \o weekday

\* self.days_en.get(weekday, f"day {weekday}")
days_en(weekday) ==
  CASE weekday = <<"0">> -> <<"Sunday">> [] weekday = <<"1">> -> <<"Monday">>
    [] weekday = <<"2">> -> <<"Tuesday">> [] weekday = <<"3">> -> <<"Wednesday">>
    [] weekday = <<"4">> -> <<"Thursday">> [] weekday = <<"5">> -> <<"Friday">>
    [] weekday = <<"6">> -> <<"Saturday">>
    [] OTHER -> <<"day ">> \o weekday

MonthKeys ==
  << <<"1">>, <<"2">>, <<"3">>, <<"4">>, <<"5">>, <<"6">>, <<"7">>, <<"8">>, <<"9">>,
     <<"1", "0">>, <<"1", "1">>, <<"1", "2">> >>

MonthNamesId ==
  <<"Januari", "Februari", "Maret", "April", "Mei", "Juni", "Juli", "Agustus",
    "September", "Oktober", "November", "Desember">>

MonthNamesEn ==
  <<"January", "February", "March", "April", "May", "June", "July", "August",
    "September", "October", "November", "December">>

\* self.months_id.get(month, f"bulan ke-{month}")
months_id(month) ==
  IF \E i \in 1..12 : MonthKeys[i] = month
  THEN <<MonthNamesId[CHOOSE i \in 1..12 : MonthKeys[i] = month]>>
  ELSE <<"bulan ke-">> \o month

\* self.months_en.get(month, f"month {month}")
months_en(month) ==
  IF \E i \in 1..12 : MonthKeys[i] = month
  THEN <<MonthNamesEn[CHOOSE i \in 1..12 : MonthKeys[i] = month]>>
  ELSE <<"month ">> \o month

\* _ordinal: int(day) raises on anything but an integer literal
ordinal(day) ==
  IF ~IsIntLiteral(day) THEN Raised
  ELSE LET day_int == IntOf(day)
           suffix  == IF 10 <= day_int % 100 /\ day_int % 100 <= 20 THEN "th"
                      ELSE CASE day_int % 10 = 1 -> "st"
                             [] day_int % 10 = 2 -> "nd"
                             [] day_int % 10 = 3 -> "rd"
                             [] OTHER -> "th"
       IN Returned(IntStr(day_int) \o <<suffix>>)

\* _to_readable_id with the day-of-month test ahead of the weekday test
to_readable_id_day_first(minute, hour, day, month, weekday, time_str) ==
  IF day # <<"*">>
  THEN IF month # <<"*">>
       THEN Returned(<<"Setiap tanggal ">> \o day \o <<" ">> \o months_id(month)
                       \o <<" jam ">> \o time_str)
       ELSE Returned(<<"Setiap tanggal ">> \o day \o <<" jam ">> \o time_str)
  ELSE IF weekday # <<"*">>
  THEN Returned(<<"Setiap hari ">> \o days_id(weekday) \o <<" jam ">> \o time_str)
  ELSE IF month # <<"*">>
  THEN Returned(<<"Setiap bulan ">> \o months_id(month) \o <<" jam ">> \o time_str)
  ELSE Returned(<<"Setiap hari jam ">> \o time_str)

to_readable_id(minute, hour, day, month, weekday, time_str) ==
  IF weekday # <<"*">>
  THEN Returned(<<"Setiap hari ">> \o days_id(weekday) \o <<" jam ">> \o time_str)
  ELSE IF day # <<"*">>
  THEN IF month # <<"*">>
       THEN Returned(<<"Setiap tanggal ">> \o day \o <<" ">> \o months_id(month)
                       \o <<" jam ">> \o time_str)
       ELSE Returned(<<"Setiap tanggal ">> \o day \o <<" jam ">> \o time_str)
  ELSE IF month # <<"*">>
  THEN Returned(<<"Setiap bulan ">> \o months_id(month) \o <<" jam ">> \o time_str)
  ELSE Returned(<<"Setiap hari jam ">> \o time_str)

to_readable_en(minute, hour, day, month, weekday, time_str) ==
  IF weekday # <<"*">>
  THEN Returned(<<"Every ">> \o days_en(weekday) \o <<" at ">> \o time_str)
  ELSE IF day # <<"*">>
  THEN LET ord == ordinal(day)
       IN IF ord.raised THEN Raised
          ELSE IF month # <<"*">>
          THEN Returned(<<"Every ">> \o months_en(month) \o <<" ">> \o ord.text
                          \o <<" at ">> \o time_str)
          ELSE Returned(<<"Every ">> \o ord.text \o <<" of the month at ">> \o time_str)
  ELSE IF month # <<"*">>
  THEN Returned(<<"Every ">> \o months_en(month) \o <<" at ">> \o time_str)
  ELSE Returned(<<"Every day at ">> \o time_str)

\* CronConverter.to_readable(cron_expr, language) for a str cron_expr
to_readable(cron_expr, language) ==
  IF cron_expr = <<>> THEN Returned(cron_expr)
  ELSE LET parts == Split(cron_expr)
       IN IF Len(parts) # 5 THEN Returned(cron_expr)
          ELSE LET time_str == zfill2(parts[2]) \o <<":">> \o zfill2(parts[1])
               IN IF language = "id"
                  THEN to_readable_id(parts[1], parts[2], parts[3], parts[4], parts[5], time_str)
                  ELSE to_readable_en(parts[1], parts[2], parts[3], parts[4], parts[5], time_str)

(***************************************************************************)
(* vector_search.py.  A document of the collection is                      *)
(*   [id, session_id, user_message, conversation, embedding]               *)
(* with conversation = [collected_data, schedule_id, is_successful]; the   *)
(* collection is kept in insertion order, which is also created_at order.  *)
(* A similarity s in [0, 1] is kept as the fraction num/den equal to its   *)
(* square, which compares and orders like s itself.  The outcomes of the   *)
(* calls to Ollama and MongoDB are arguments (env): each can fail.         *)
(***************************************************************************)
SimilarityThreshold == 85    \* VECTOR_SIMILARITY_THRESHOLD, 0.85, in hundredths

DuplicateThreshold == 98     \* the 0.98 of store_conversation, in hundredths

ScanLimit == 100             \* .limit(100) of _fallback_search

\* the messages of the model
MsgHello == <<"halo">>

MsgMerchant == <<"mid", " ", "finpay", "7", "7", "0">>

MsgFull ==
  <<"mid", " ", "finpay", "7", "7", "0", " ", "excel", " ", "setiap", " ", "hari", " ",
    "kamis", " ", "jam", " ", "8", " ", "kirim", " ", "ke", " ", "finance", "@", "finpay",
    ".", "com">>

\* response['embedding'] of ollama.embeddings, an external model: the empty
\* text and MsgHello lie within 0.98 of each other, MsgMerchant within 0.85
\* of both, every other text is orthogonal to the empty text
Embed(text) ==
  CASE text = <<>> -> <<10, 0>>
    [] text = MsgHello -> <<10, 1>>
    [] text = MsgMerchant -> <<10, 5>>
    [] OTHER -> <<0, 10>>

\* generate_embedding(text): [] when the call raises
generate_embedding(text, ok) == IF ok THEN Embed(text) ELSE <<>>

\* sum(a * b for a, b in zip(vec1, vec2))
RECURSIVE Dot(_, _)
Dot(vec1, vec2) ==
  IF vec1 = <<>> \/ vec2 = <<>> THEN 0
  ELSE Head(vec1) * Head(vec2) + Dot(Tail(vec1), Tail(vec2))

ZeroSim == [num |-> 0, den |-> 1]

\* max(0.0, min(1.0, dot_product / (magnitude1 * magnitude2))), squared
Clamped(dot_product, m1, m2) ==
  IF m1 = 0 \/ m2 = 0 \/ dot_product <= 0 THEN ZeroSim
  ELSE [num |-> dot_product * dot_product, den |-> m1 * m2]

\* _cosine_similarity(vec1, vec2)
cosine_similarity(vec1, vec2) ==
  IF Len(vec1) # Len(vec2) THEN ZeroSim
  ELSE Clamped(Dot(vec1, vec2), Dot(vec1, vec1), Dot(vec2, vec2))

\* sim >= pct / 100
AtLeast(sim, pct) == sim.num * 100 * 100 >= pct * pct * sim.den

\* sim > pct / 100
Above(sim, pct) == sim.num * 100 * 100 > pct * pct * sim.den

\* a.similarity > b.similarity
MoreSimilar(a, b) == a.similarity.num * b.similarity.den > b.similarity.num * a.similarity.den

\* seq[:k]
Take(seq, k) == SubSeq(seq, 1, Min({k, Len(seq)}))

\* list(reversed(seq))
Reversed(seq) == [i \in 1..Len(seq) |-> seq[Len(seq) + 1 - i]]

\* r placed in a list sorted by similarity descending, after its equals
RECURSIVE InsertBySim(_, _)
InsertBySim(r, sorted) ==
  IF sorted = <<>> THEN <<r>>
  ELSE IF MoreSimilar(r, Head(sorted)) THEN <<r>> \o sorted
  ELSE <<Head(sorted)>> \o InsertBySim(r, Tail(sorted))

\* results.sort(key=similarity, reverse=True), a stable sort
RECURSIVE SortBySim(_)
SortBySim(results) ==
  IF results = <<>> THEN <<>>
  ELSE InsertBySim(results[Len(results)], SortBySim(SubSeq(results, 1, Len(results) - 1)))

\* the loop of _fallback_search over all_convos: the scored documents that
\* have an embedding and reach the threshold
RECURSIVE Scored(_, _)
Scored(convos, query_embedding) ==
  IF convos = <<>> THEN <<>>
  ELSE (IF Head(convos).embedding # <<>>
           /\ AtLeast(cosine_similarity(query_embedding, Head(convos).embedding),
                      SimilarityThreshold)
        THEN <<[conversation |-> Head(convos),
                similarity |-> cosine_similarity(query_embedding, Head(convos).embedding)]>>
        ELSE <<>>)
       \o Scored(Tail(convos), query_embedding)

\* the place MongoDB gives a document in a sort by is_successful descending:
\* true (2), then false (1), then a document without the top-level field (0);
\* store_conversation writes no such field, update_conversation_status does
TopFlag(doc) ==
  IF "is_successful" \in DOMAIN doc THEN (IF doc["is_successful"] THEN 2 ELSE 1) ELSE 0

\* .sort([("is_successful", -1)]) on documents, keeping the order within a flag
FlagFirstDocs(docs) ==
  SelectSeq(docs, LAMBDA d : TopFlag(d) = 2) \o SelectSeq(docs, LAMBDA d : TopFlag(d) = 1)
    \o SelectSeq(docs, LAMBDA d : TopFlag(d) = 0)

\* the same on scored results
FlagFirstResults(results) ==
  SelectSeq(results, LAMBDA r : TopFlag(r.conversation) = 2)
    \o SelectSeq(results, LAMBDA r : TopFlag(r.conversation) = 1)
    \o SelectSeq(results, LAMBDA r : TopFlag(r.conversation) = 0)

\* _fallback_search: the first ScanLimit documents by is_successful and then
\* newest first, scored, sorted by similarity alone, cut to top_k
fallback_search(docs, query_embedding, top_k) ==
  Take(SortBySim(Scored(Take(FlagFirstDocs(Reversed(docs)), ScanLimit), query_embedding)),
       top_k)

\* every document that has an embedding, scored against the query
RECURSIVE ScoredAll(_, _)
ScoredAll(convos, query_embedding) ==
  IF convos = <<>> THEN <<>>
  ELSE (IF Head(convos).embedding # <<>>
        THEN <<[conversation |-> Head(convos),
                similarity |-> cosine_similarity(query_embedding, Head(convos).embedding)]>>
        ELSE <<>>)
       \o ScoredAll(Tail(convos), query_embedding)

\* results of a pipeline stage that reach the threshold ($match)
RECURSIVE Matching(_)
Matching(results) ==
  IF results = <<>> THEN <<>>
  ELSE (IF AtLeast(Head(results).similarity, SimilarityThreshold)
        THEN <<Head(results)>> ELSE <<>>) \o Matching(Tail(results))

\* the aggregation pipeline: $vectorSearch keeps the top_k nearest indexed
\* documents, $match the ones at the threshold, $sort orders by the
\* top-level is_successful and then by similarity (the index is defined
\* outside the repository; its score is taken to be the cosine similarity)
vector_search_pipeline(docs, query_embedding, top_k) ==
  FlagFirstResults(
    SortBySim(Matching(Take(SortBySim(ScoredAll(docs, query_embedding)), top_k))))

\* search_similar_conversations from the query embedding on
SearchWith(docs, query_embedding, top_k, env) ==
  IF query_embedding = <<>> THEN <<>>
  ELSE IF env.index_ok THEN vector_search_pipeline(docs, query_embedding, top_k)
  ELSE IF env.scan_ok THEN fallback_search(docs, query_embedding, top_k)
  ELSE <<>>

\* search_similar_conversations(user_message, top_k)
search_similar_conversations(docs, user_message, top_k, env) ==
  SearchWith(docs, generate_embedding(user_message, env.embed_ok), top_k, env)

\* update_conversation_status(session_id, schedule_id, is_successful):
\* update_one sets the top-level schedule_id and is_successful of the first
\* document of the session; an exception is logged and changes nothing
update_conversation_status(docs, session_id, schedule_id, is_successful, ok) ==
  LET hits == {i \in 1..Len(docs) : docs[i].session_id = session_id}
  IN IF ~ok \/ hits = {} THEN docs
     ELSE [docs EXCEPT ![Min(hits)] =
             DictUpdate(@, [k \in {"schedule_id", "is_successful"} |->
                              IF k = "schedule_id" THEN <<schedule_id>>
                              ELSE is_successful])]

\* what Ollama and MongoDB can do to one search
SearchEnvs == [embed_ok : BOOLEAN, index_ok : BOOLEAN, scan_ok : BOOLEAN]

\* what they can do to one store_conversation
StoreEnvs == [embed_ok : BOOLEAN, search : SearchEnvs, insert_ok : BOOLEAN]

\* not schedule_id, for a schedule_id that is None (<<>>) or an int
TruthyId(schedule_id) == schedule_id # <<>> /\ schedule_id[1] # 0

\* the document store_conversation prepares
NewDoc(id, session_id, user_message, collected_data, schedule_id, is_successful, embedding) ==
  [ id           |-> id,
    session_id   |-> session_id,
    user_message |-> user_message,
    conversation |-> [collected_data |-> collected_data,
                      schedule_id    |-> schedule_id,
                      is_successful  |-> is_successful],
    embedding    |-> embedding ]

\* store_conversation after the quality gate: the deduplication check and
\* the insert; ret is <<inserted or existing id>>, or <<>> for ""
StoreChecked(docs, existing, doc, insert_ok) ==
  IF existing # <<>> /\ Above(existing[1].similarity, DuplicateThreshold)
  THEN [cache |-> docs, ret |-> <<existing[1].conversation.id>>]
  ELSE IF insert_ok THEN [cache |-> Append(docs, doc), ret |-> <<doc.id>>]
  ELSE [cache |-> docs, ret |-> <<>>]

\* store_conversation without the quality gate
store_conversation_no_gate(docs, session_id, user_message, collected_data, schedule_id, is_successful, env) ==
  StoreChecked(docs, search_similar_conversations(docs, user_message, 1, env.search),
               NewDoc(Len(docs) + 1, session_id, user_message, collected_data, schedule_id,
                      is_successful, generate_embedding(user_message, env.embed_ok)),
               env.insert_ok)

\* store_conversation(session_id, user_message, collected_data, schedule_id,
\* is_successful): the new collection and the returned id
store_conversation(docs, session_id, user_message, collected_data, schedule_id, is_successful, env) ==
  IF ~is_successful \/ ~TruthyId(schedule_id)
  THEN [cache |-> docs, ret |-> <<>>]
  ELSE StoreChecked(docs, search_similar_conversations(docs, user_message, 1, env.search),
                    NewDoc(Len(docs) + 1, session_id, user_message, collected_data,
                           schedule_id, is_successful,
                           generate_embedding(user_message, env.embed_ok)),
                    env.insert_ok)

(***************************************************************************)
(* The manager driven directly through its public methods (SpecCM).        *)
(* Every argument is drawn from a small set; the deltas include falsy      *)
(* values, which update_session accepts like any other value.              *)
(***************************************************************************)
Languages == {"id", "en"}

ApiSessionIds == {"s1"}   \* the session the manager-level model follows

Roles == {"user", "assistant"}

V(x) == <<x>>

ApiDeltas ==
  { EmptyDict,
    [k \in {"merchant_id"} |-> V("FINPAY770")],
    [k \in {"merchant_id"} |-> <<>>],
    [k \in {"report_type"} |-> <<>>],
    [k \in {"report_type", "status_filter"} |->
        IF k = "report_type" THEN V("settlement") ELSE V("ALL")],
    [k \in {"output_format", "cron_schedule", "timezone"} |->
        CASE k = "output_format" -> V("xlsx")
          [] k = "cron_schedule" -> <<"0", " ", "8", " ", "*", " ", "*", " ", "4">>
          [] OTHER -> V("Asia/Makassar")],
    [k \in {"email_recipients"} |-> V("finance@finpay.com")] }

BoolStr(b) == IF b THEN "True" ELSE "False"

\* rep: the call repeats the call before it (same method, session and arguments)
Call(op, sid, arg, ret) ==
  [op |-> op, sid |-> sid, arg |-> arg, ret |-> ret,
   rep |-> (last.op = op /\ last.sid = sid /\ last.arg = arg)]

NoCall == [op |-> "init", sid |-> "", arg |-> EmptyDict, ret |-> "", rep |-> FALSE]

NoFn == [stage |-> "unused"]

NoStream == [pc |-> "idle"]

NoConf == [pc |-> "idle"]

NoTurn ==
  [op |-> "none", sid |-> "", stage |-> "none", message |-> <<>>, allowed |-> <<>>,
   hit |-> FALSE, parsed |-> FALSE, entities |-> EmptyDict, before |-> EmptyDict,
   after |-> EmptyDict, store |-> [called |-> FALSE], fault |-> FALSE]

\* the variables of the service that the function-level models leave alone
Unused ==
  /\ cache = <<>>
  /\ stream = NoStream
  /\ conf = NoConf
  /\ turn = NoTurn

InitCM ==
  /\ sessions = EmptyDict
  /\ used = {}
  /\ last = NoCall
  /\ fn = NoFn
  /\ Unused

CM_create_session ==
  \E sid \in ApiSessionIds \ used, lang \in Languages :
    /\ sessions' = DictUpdate(sessions, [k \in {sid} |-> NewSession("u", lang)])
    /\ used' = used \cup {sid}
    /\ UNCHANGED notCM
    /\ last' = Call("create_session", sid, EmptyDict, sid)

CM_update_session_data ==
  \E sid \in ApiSessionIds, d \in ApiDeltas :
    LET r == update_session(sessions, sid, d, None, "", None)
    IN /\ sessions' = r.sessions
       /\ last' = Call("update_session", sid, d, BoolStr(r.ret))
       /\ UNCHANGED <<used, notCM>>

CM_update_session_flags ==
  \E sid \in ApiSessionIds, na \in {"ask_format", "confirm"}, ic \in BOOLEAN :
    LET r == update_session(sessions, sid, EmptyDict, None, na, Some(ic))
    IN /\ sessions' = r.sessions
       /\ last' = Call("update_session_flags", sid, EmptyDict, BoolStr(r.ret))
       /\ UNCHANGED <<used, notCM>>

CM_add_message ==
  \E sid \in ApiSessionIds, role \in Roles :
    /\ sid \in DOMAIN sessions => Len(sessions[sid].conversation_history) < MaxTurns
    /\ LET r == add_message(sessions, sid, role, "msg")
       IN /\ sessions' = r.sessions
          /\ last' = Call("add_message", sid, EmptyDict, BoolStr(r.ret))
    /\ UNCHANGED <<used, notCM>>

CM_check_completeness ==
  \E sid \in ApiSessionIds :
    LET r == check_completeness(sessions, sid)
    IN /\ sessions' = r.sessions
       /\ last' = Call("check_completeness", sid, EmptyDict, BoolStr(r.ret))
       /\ UNCHANGED <<used, notCM>>

CM_determine_next_action ==
  \E sid \in ApiSessionIds :
    /\ last' = Call("determine_next_action", sid, EmptyDict,
                    determine_next_action(sessions, sid))
    /\ UNCHANGED <<sessions, used, notCM>>

CM_delete_session ==
  \E sid \in ApiSessionIds :
    LET r == delete_session(sessions, sid)
    IN /\ sessions' = r.sessions
       /\ last' = Call("delete_session", sid, EmptyDict, BoolStr(r.ret))
       /\ UNCHANGED <<used, notCM>>

NextCM ==
  \/ CM_create_session
  \/ CM_update_session_data
  \/ CM_update_session_flags
  \/ CM_add_message
  \/ CM_check_completeness
  \/ CM_determine_next_action
  \/ CM_delete_session

SpecCM == InitCM /\ [][NextCM]_vars

(***************************************************************************)
(* The two schedule functions applied to five-field expressions            *)
(* (SpecCron).  Each field is a wildcard, a literal integer or a step      *)
(* expression; the text handed to _extract_cron holds the expression       *)
(* verbatim, alone or between other words.                                 *)
(***************************************************************************)
CronFields == { <<"*">>, <<"0">>, <<"1", "5">>, <<"*", "/", "2">> }

\* the month field can also name a month of the calendar
CronMonths == CronFields \cup { <<"1">> }

\* the expressions of the test cases at the end of cron_converter.py
CronExamples ==
  { <<"0", " ", "8", " ", "*", " ", "*", " ", "4">>,
    <<"0", " ", "8", " ", "1", " ", "*", " ", "*">> }

CronContexts ==
  { [pre |-> <<>>, post |-> <<>>],
    [pre |-> <<"jadwal", " ">>, post |-> <<>>],
    [pre |-> <<>>, post |-> <<" ", "ya">>] }

InitCron ==
  /\ sessions = EmptyDict
  /\ used = {}
  /\ last = NoCall
  /\ Unused
  /\ \E a \in CronFields, b \in CronFields, c \in CronFields, d \in CronMonths,
        e \in CronFields, x \in CronExamples, lang \in Languages, ctx \in CronContexts :
       \E cron \in {CronStr(a, b, c, d, e), x} :
         fn = [stage |-> "input", cron |-> cron, lang |-> lang,
               ctx |-> ctx, out |-> Returned(<<>>)]

\* cron_converter.to_readable(cron, language)
Cron_to_readable ==
  /\ fn.stage = "input"
  /\ fn' = [fn EXCEPT !.stage = "rendered", !.out = to_readable(fn.cron, fn.lang)]
  /\ UNCHANGED <<cmVars, cache, stream, conf, turn>>

\* entity_parser._extract_cron(text), the text containing cron verbatim
Cron_extract ==
  /\ fn.stage = "input"
  /\ fn' = [fn EXCEPT !.stage = "extracted",
                      !.out = Returned(extract_cron(fn.ctx.pre \o fn.cron \o fn.ctx.post))]
  /\ UNCHANGED <<cmVars, cache, stream, conf, turn>>

NextCron ==
  \/ Cron_to_readable
  \/ Cron_extract

SpecCron == InitCron /\ [][NextCron]_vars

(***************************************************************************)
(* Properties of the schedule functions (checked under SpecCron).          *)
(***************************************************************************)

\* C9 (as stated): for every five-field expression of wildcards, literal
\* integers and step expressions, in both locales, to_readable raises no
\* exception and returns non-empty text.
C9_to_readable_total ==
  fn.stage = "rendered" => (~fn.out.raised /\ fn.out.text # <<>>)

\* C10 (as stated): _extract_cron applied to a text that contains a
\* five-field expression verbatim returns exactly that expression.
C10_literal_passthrough ==
  fn.stage = "extracted" => fn.out.text = fn.cron

\* a field of the rendered expression, 1 = minute .. 5 = weekday
CronPart(i) == Split(fn.cron)[i]

\* HH:MM: hour and minute each padded with a zero to two characters
ClockText ==
  (IF Len(CronPart(2)) < 2 THEN <<"0">> ELSE <<>>) \o CronPart(2) \o <<":">>
    \o (IF Len(CronPart(1)) < 2 THEN <<"0">> ELSE <<>>) \o CronPart(1)

\* the name of a weekday 0..6 or of a month 1..12, else the numeric label
WeekdayText ==
  LET names == IF fn.lang = "id"
               THEN <<"Minggu", "Senin", "Selasa", "Rabu", "Kamis", "Jumat", "Sabtu">>
               ELSE <<"Sunday", "Monday", "Tuesday", "Wednesday", "Thursday", "Friday",
                      "Saturday">>
      w == CronPart(5)
  IN IF IsIntLiteral(w) /\ Len(w) = 1 /\ IntOf(w) \in 0..6 THEN <<names[IntOf(w) + 1]>>
     ELSE <<IF fn.lang = "id" THEN "hari ke-" ELSE "day ">> \o w

MonthText ==
  LET m == CronPart(4)
  IN IF IsIntLiteral(m) /\ m[1] \notin {"0", "-"} /\ IntOf(m) \in 1..12
     THEN <<(IF fn.lang = "id" THEN MonthNamesId ELSE MonthNamesEn)[IntOf(m)]>>
     ELSE <<IF fn.lang = "id" THEN "bulan ke-" ELSE "month ">> \o m

\* the text of each branch, by locale
WeeklyText ==
  IF fn.lang = "id" THEN <<"Setiap hari ">> \o WeekdayText \o <<" jam ">> \o ClockText
  ELSE <<"Every ">> \o WeekdayText \o <<" at ">> \o ClockText

MonthlyTextId ==
  <<"Setiap tanggal ">> \o CronPart(3)
    \o (IF CronPart(4) # <<"*">> THEN <<" ">> \o MonthText ELSE <<>>)
    \o <<" jam ">> \o ClockText

\* the English monthly text: "Every <month> <ordinal> at" or "Every <ordinal>
\* of the month at"
MonthlyShapeEn ==
  LET t == fn.out.text
      n == Len(t) - Len(ClockText)
  IN /\ n > 2
     /\ t[1] = "Every "
     /\ SubSeq(t, n + 1, Len(t)) = ClockText
     /\ IF CronPart(4) # <<"*">>
        THEN SubSeq(t, 2, Len(MonthText) + 1) = MonthText /\ t[n] = " at "
        ELSE t[n] = " of the month at "

MonthOnlyText ==
  IF fn.lang = "id" THEN <<"Setiap bulan ">> \o MonthText \o <<" jam ">> \o ClockText
  ELSE <<"Every ">> \o MonthText \o <<" at ">> \o ClockText

DailyText ==
  IF fn.lang = "id" THEN <<"Setiap hari jam ">> \o ClockText
  ELSE <<"Every day at ">> \o ClockText

\* the branch taken for each shape of expression
BranchBySpecificity ==
  (fn.stage = "rendered" /\ ~fn.out.raised) =>
     IF CronPart(5) # <<"*">> THEN fn.out.text = WeeklyText
     ELSE IF CronPart(3) # <<"*">>
     THEN (IF fn.lang = "id" THEN fn.out.text = MonthlyTextId ELSE MonthlyShapeEn)
     ELSE IF CronPart(4) # <<"*">> THEN fn.out.text = MonthOnlyText
     ELSE fn.out.text = DailyText

\* the two renderings the converter's own test cases expect
RenderExamples ==
  (fn.stage = "rendered" /\ fn.lang = "id") =>
     /\ fn.cron = <<"0", " ", "8", " ", "*", " ", "*", " ", "4">>
          => fn.out = Returned(<<"Setiap hari ", "Kamis", " jam ", "0", "8", ":", "0", "0">>)
     /\ fn.cron = <<"0", " ", "8", " ", "1", " ", "*", " ", "*">>
          => fn.out = Returned(<<"Setiap tanggal ", "1", " jam ", "0", "8", ":", "0", "0">>)

FINPAY770 == <<"FINPAY", "7", "7", "0">>

MERCHANT001 == <<"MERCHANT", "0", "0", "1">>

MerchantPhrases ==
  { <<>>,
    <<"mid", " ", "finpay", "7", "7", "0">>,
    <<"mid", ":", " ", "merchant", "0", "0", "1">>,
    <<"FINPAY", "7", "7", "0">>,
    <<"merchant", " ", "yang">> }

OtherPhrases ==
  { <<>>,
    <<"7", " ", "hari">>,
    <<"report", " ", "transaksi", " ", "sukses", " ", "format", " ", "excel">>,
    <<"setiap", " ", "hari", " ", "kamis", " ", "jam", " ", "8", " ", "wita">>,
    <<"kirim", " ", "ke", " ", "finance", "@", "finpay", ".", "com">>,
    <<"0", " ", "8", " ", "*", " ", "*", " ", "4">>,
    <<"halo">> }

\* the two phrases as one message
Message(m, o) ==
  IF m = <<>> THEN o ELSE IF o = <<>> THEN m ELSE m \o <<" ">> \o o

AllowLists ==
  { None, Some(<<>>), Some(<<MERCHANT001>>), Some(<<FINPAY770>>),
    Some(<<FINPAY770, MERCHANT001>>) }

\* a session whose slot map holds the schedule and the timezone of an
\* earlier message ("... setiap hari jam 8 wita")
StoredSchedule ==
  UpdateSessionDict(NewSession("u", "id"),
                    ScheduleDict(<<"Asia/Makassar">>,
                                 <<"0", " ", "8", " ", "*", " ", "*", " ", "*">>),
                    None, "", None)

InitParse ==
  /\ sessions = EmptyDict
  /\ used = {}
  /\ last = NoCall
  /\ Unused
  /\ \E m \in MerchantPhrases, o \in OtherPhrases, allowed \in AllowLists :
       fn = [stage |-> "input", message |-> Message(m, o), allowed |-> allowed,
             out |-> EmptyDict, session |-> StoredSchedule]

\* entity_parser.parse_message(message, allowed_merchant_ids)
Parse_message ==
  /\ fn.stage = "input"
  /\ fn' = [fn EXCEPT !.stage = "parsed", !.out = parse_message(fn.message, fn.allowed)]
  /\ UNCHANGED <<cmVars, cache, stream, conf, turn>>

\* the caller drops the result
Parse_discard ==
  /\ fn.stage = "parsed"
  /\ fn' = [fn EXCEPT !.stage = "done", !.out = EmptyDict]
  /\ UNCHANGED <<cmVars, cache, stream, conf, turn>>

\* the caller merges the result into the session:
\* "if entities: update_session(session_id, collected_data=entities)"
Parse_apply ==
  /\ fn.stage = "parsed"
  /\ "_merchant_error" \notin DOMAIN fn.out
  /\ fn' = [fn EXCEPT !.stage = "applied",
                      !.session = IF fn.out # EmptyDict
                                  THEN UpdateSessionDict(@, fn.out, None, "", None)
                                  ELSE @]
  /\ UNCHANGED <<cmVars, cache, stream, conf, turn>>

NextParse ==
  \/ Parse_message
  \/ Parse_discard
  \/ Parse_apply

SpecParse == InitParse /\ [][NextParse]_vars

(***************************************************************************)
(* Properties of parse_message (checked under SpecParse).                  *)
(***************************************************************************)
ErrorKeys == {"_merchant_error", "_allowed_merchants"}

SchemaKeys ==
  {"merchant_id", "report_type", "status_filter", "date_range", "output_format",
   "cron_schedule", "timezone", "email_recipients"}

\* the message names a merchant that the allow-list does not hold
Rejected(message, allowed) == NotAllowed(extract_merchant_id(message), allowed)

\* C3: with an allow-list that does not hold the extracted merchant id the
\* result of parse_message has exactly the two error keys (the offending id
\* and the allow-list) and none of the eight slot keys; with no allow-list
\* or a member id it has no error key.
C3_authorization_short_circuit ==
  fn.stage = "parsed" =>
    IF Rejected(fn.message, fn.allowed)
    THEN /\ DOMAIN fn.out = ErrorKeys
         /\ DOMAIN fn.out \cap SchemaKeys = {}
         /\ fn.out["_merchant_error"] = extract_merchant_id(fn.message)
         /\ fn.out["_allowed_merchants"] = fn.allowed[1]
    ELSE DOMAIN fn.out \cap ErrorKeys = {}

\* C3 witness: a message with an unauthorized merchant id and a date-range
\* phrase has been parsed against a non-empty allow-list.
C3_witness ==
  /\ fn.stage = "parsed"
  /\ Rejected(fn.message, fn.allowed)
  /\ fn.allowed[1] # <<>>
  /\ extract_date_range(lower(fn.message)) # <<>>
  /\ DOMAIN fn.out = ErrorKeys

\* C14 (as stated): when no schedule expression is found in the message (and
\* the message is not rejected for its merchant id), the delta returned by
\* parse_message still has a timezone key, holding the default timezone
\* unless the message names one.
C14_default_timezone_attached ==
  ( /\ fn.stage = "parsed"
    /\ ~Rejected(fn.message, fn.allowed)
    /\ extract_cron(lower(fn.message)) = <<>> )
  => /\ "timezone" \in DOMAIN fn.out
     /\ fn.out["timezone"] = Or(extract_timezone(lower(fn.message)), <<"Asia/Jakarta">>)

\* the message holds none of the timezone words of _extract_timezone
NamesNoTimezone ==
  \A w \in {"wib", "wita", "wit"} : ~InText(<<w>>, lower(fn.message))

\* C30: every delta returned by parse_message has a timezone key if and
\* only if it has a cron_schedule key, and the timezone is Asia/Jakarta
\* whenever the message names none; so merging the delta of a message that
\* carries a schedule overwrites the timezone the session had stored, also
\* when the message says nothing about timezone.
C30_timezone_with_schedule ==
  /\ fn.stage \in {"parsed", "applied"} =>
       /\ ("timezone" \in DOMAIN fn.out) <=> ("cron_schedule" \in DOMAIN fn.out)
       /\ ("timezone" \in DOMAIN fn.out /\ NamesNoTimezone)
            => fn.out["timezone"] = <<"Asia/Jakarta">>
  /\ (fn.stage = "applied" /\ "cron_schedule" \in DOMAIN fn.out) =>
       /\ fn.session.collected_data["cron_schedule"] = fn.out["cron_schedule"]
       /\ fn.session.collected_data["timezone"] = fn.out["timezone"]
       /\ NamesNoTimezone => fn.session.collected_data["timezone"] # <<"Asia/Makassar">>

\* a message with a schedule and no timezone word is merged into the session
\* that had stored Asia/Makassar
C30_witness ==
  /\ fn.stage = "applied"
  /\ fn.message = <<"0", " ", "8", " ", "*", " ", "*", " ", "4">>
  /\ StoredSchedule.collected_data["timezone"] = <<"Asia/Makassar">>
  /\ fn.out["cron_schedule"] = fn.message
  /\ fn.session.collected_data["timezone"] = <<"Asia/Jakarta">>

(***************************************************************************)
(* Properties of the manager (checked under SpecCM).                       *)
(***************************************************************************)

\* C1 (as stated): on every reachable session state, determine_next_action
\* returns "confirm" if and only if check_completeness returns true, both
\* evaluated on that same state.
C1_confirm_iff_complete ==
  \A sid \in DOMAIN sessions :
    (determine_next_action(sessions, sid) = "confirm")
      <=> check_completeness(sessions, sid).ret

\* C1 (amended): with determine_next_action evaluated on the state that
\* check_completeness leaves behind (its defaults written), a true result of
\* check_completeness implies "confirm", and "confirm" with a false result
\* happens only when a required slot is present with an empty value.
C1_confirm_after_defaults ==
  \A sid \in DOMAIN sessions :
    LET r     == check_completeness(sessions, sid)
        after == r.sessions[sid].collected_data
        act   == determine_next_action(r.sessions, sid)
    IN /\ r.ret => act = "confirm"
       /\ (act = "confirm" /\ ~r.ret) =>
            \E i \in 1..Len(required_fields) :
               /\ required_fields[i] \in DOMAIN after
               /\ ~Truthy(after[required_fields[i]])

\* C1 witness: determine_next_action has just returned "confirm" on a session
\* whose required slots are all filled.
C1_witness ==
  /\ last.op = "determine_next_action"
  /\ last.ret = "confirm"
  /\ last.sid \in DOMAIN sessions
  /\ check_completeness(sessions, last.sid).ret

\* C4 (as stated): after update_session with a delta and after
\* check_completeness, missing_fields is exactly the list of schema fields
\* absent from or falsy in the slot map, in schema order.
C4_missing_fields_current ==
  ( /\ last.op \in {"update_session", "check_completeness"}
    /\ last.sid \in DOMAIN sessions
    /\ last.op = "update_session" => last.arg # EmptyDict )
  => sessions[last.sid].missing_fields = MissingOf(sessions[last.sid].collected_data)

\* C6: a call of update_session(collected_data=delta) that repeats the call
\* before it leaves the slot map and missing_fields (the whole session map)
\* exactly as the first call left them.
C6_applyDelta_idempotent ==
  [][(last'.op = "update_session" /\ last'.rep) => sessions' = sessions]_vars

\* C6 witness: a non-empty delta has been applied twice in a row to an
\* existing session that still misses fields.
C6_witness ==
  /\ last.op = "update_session"
  /\ last.rep
  /\ last.arg # EmptyDict
  /\ last.sid \in DOMAIN sessions
  /\ sessions[last.sid].missing_fields # <<>>

\* the default check_completeness has for an optional slot
DefaultOf(k) ==
  CASE k = "status_filter" -> <<"PAID", "CAPTURED">>
    [] k = "report_type" -> <<"transaction">>
    [] k = "timezone" -> <<"Asia/Jakarta">>

\* C15: check_completeness on an existing session writes the defaults of
\* status_filter, report_type and timezone into the slot map for exactly
\* those of the three keys that are not set, changes no other key, no value
\* already set and nothing else of the session, and returns true if and only
\* if merchant_id, output_format, cron_schedule and email_recipients are all
\* present and non-empty.
C15_defaults_written_live ==
  [][(last'.op = "check_completeness" /\ last'.sid \in DOMAIN sessions) =>
       LET sid    == last'.sid
           before == sessions[sid].collected_data
           after  == sessions'[sid].collected_data
       IN /\ DOMAIN after = DOMAIN before \cup {"status_filter", "report_type", "timezone"}
          /\ \A k \in DOMAIN before : after[k] = before[k]
          /\ \A k \in DOMAIN after \ DOMAIN before : after[k] = DefaultOf(k)
          /\ sessions' = [sessions EXCEPT ![sid].collected_data = after]
          /\ last'.ret = BoolStr(\A k \in {"merchant_id", "output_format", "cron_schedule",
                                            "email_recipients"} :
                                   k \in DOMAIN after /\ after[k] # <<>>)]_vars

\* C15 witness: check_completeness has returned true on a session whose
\* timezone was set by a delta and whose report_type it has defaulted.
C15_witness ==
  /\ last.op = "check_completeness"
  /\ last.ret = "True"
  /\ last.sid \in DOMAIN sessions
  /\ sessions[last.sid].collected_data["timezone"] = V("Asia/Makassar")
  /\ sessions[last.sid].collected_data["report_type"] = <<"transaction">>

\* the six fields determine_next_action asks for, in its order, each with
\* its prompt target
prompt_order ==
  << <<"merchant_id", "ask_merchant">>, <<"report_type", "ask_report_type">>,
     <<"status_filter", "ask_status">>, <<"output_format", "ask_format">>,
     <<"cron_schedule", "ask_schedule">>, <<"email_recipients", "ask_recipients">> >>

\* C16 (as stated): determine_next_action returns the prompt target of the
\* first of the six fields that is absent from the slot map or has a falsy
\* value, and "confirm" only when none of the six is missing.
C16_first_missing_field ==
  (last.op = "determine_next_action" /\ last.sid \in DOMAIN sessions) =>
    LET collected == sessions[last.sid].collected_data
        missing   == {i \in 1..Len(prompt_order) :
                        \/ prompt_order[i][1] \notin DOMAIN collected
                        \/ ~Truthy(collected[prompt_order[i][1]])}
    IN last.ret = IF missing = {} THEN "confirm" ELSE prompt_order[Min(missing)][2]

\* C20: add_message on an existing session appends exactly one turn at the
\* end of the turn history, keeps every earlier turn unchanged and in the
\* same order, and leaves the slot map, missing_fields, next_action,
\* is_complete and every other session unchanged.
C20_add_message_appends_only ==
  [][(last'.op = "add_message" /\ last'.sid \in DOMAIN sessions) =>
       LET sid == last'.sid
           old == sessions[sid].conversation_history
           new == sessions'[sid].conversation_history
       IN /\ Len(new) = Len(old) + 1
          /\ \A i \in 1..Len(old) : new[i] = old[i]
          /\ new[Len(new)].role \in Roles
          /\ new[Len(new)].content = "msg"
          /\ \A f \in DOMAIN sessions[sid] \ {"conversation_history"} :
                sessions'[sid][f] = sessions[sid][f]
          /\ DOMAIN sessions' = DOMAIN sessions
          /\ \A other \in DOMAIN sessions \ {sid} : sessions'[other] = sessions[other]
          /\ last'.ret = "True"]_vars

\* C20 witness: a second turn has been appended to a session that already
\* holds a turn and a non-empty slot map.
C20_witness ==
  /\ last.op = "add_message"
  /\ last.ret = "True"
  /\ last.sid \in DOMAIN sessions
  /\ Len(sessions[last.sid].conversation_history) = 2
  /\ sessions[last.sid].collected_data # EmptyDict
  /\ sessions[last.sid].missing_fields # <<>>

\* C21: after update_session(collected_data=delta) with a non-empty delta
\* on an existing session, every key of the delta holds the delta's value
\* in the slot map, whatever value it held before, and every other key of
\* the slot map keeps the value it had; no key is added or removed besides.
C21_delta_overwrites ==
  [][(last'.op = "update_session" /\ last'.arg # EmptyDict /\ last'.sid \in DOMAIN sessions) =>
       LET delta  == last'.arg
           before == sessions[last'.sid].collected_data
           after  == sessions'[last'.sid].collected_data
       IN /\ last'.ret = "True"
          /\ DOMAIN after = DOMAIN before \cup DOMAIN delta
          /\ \A k \in DOMAIN delta : after[k] = delta[k]
          /\ \A k \in DOMAIN before \ DOMAIN delta : after[k] = before[k]]_vars

\* C21 witness: a delta has replaced the merchant id of a session by
\* another value while the session keeps the report type and the timezone
\* that earlier deltas gave it.
C21_witness ==
  /\ last.op = "update_session"
  /\ last.arg = [k \in {"merchant_id"} |-> <<>>]
  /\ last.sid \in DOMAIN sessions
  /\ "merchant_id" \in Range(sessions[last.sid].missing_fields)
  /\ {"merchant_id", "report_type", "timezone"} \subseteq DOMAIN sessions[last.sid].collected_data
  /\ sessions[last.sid].collected_data["merchant_id"] = <<>>
  /\ sessions[last.sid].collected_data["report_type"] = V("settlement")
  /\ sessions[last.sid].collected_data["timezone"] = V("Asia/Makassar")

(***************************************************************************)
(* The similarity cache driven directly through store_conversation and     *)
(* search_similar_conversations (SpecVS).                                  *)
(***************************************************************************)
Texts == {<<>>, MsgHello, MsgMerchant, MsgFull}

ScheduleIds == {None, Some(0), Some(7)}

SomeData == [k \in {"merchant_id"} |-> FINPAY770]

InitVS ==
  /\ sessions = EmptyDict
  /\ used = {}
  /\ last = NoCall
  /\ fn = NoFn
  /\ Unused

VS_store_conversation ==
  \E sid \in ApiSessionIds, text \in Texts, schedule_id \in ScheduleIds,
     is_successful \in BOOLEAN, env \in StoreEnvs :
    LET r == store_conversation(cache, sid, text, SomeData, schedule_id, is_successful, env)
    IN /\ Len(cache) < MaxDocs
       /\ cache' = r.cache
       /\ last' = [op |-> "store_conversation", sid |-> sid, text |-> text,
                   schedule_id |-> schedule_id, is_successful |-> is_successful,
                   env |-> env, before |-> cache, ret |-> r.ret, rep |-> FALSE]
       /\ UNCHANGED <<sessions, used, fn, stream, conf, turn>>

VS_search_similar_conversations ==
  \E text \in Texts, top_k \in 1..MaxDocs, env \in SearchEnvs :
    /\ last' = [op |-> "search_similar_conversations", sid |-> "", text |-> text,
                top_k |-> top_k, env |-> env, before |-> cache,
                ret |-> search_similar_conversations(cache, text, top_k, env),
                rep |-> FALSE]
    /\ UNCHANGED <<sessions, used, fn, cache, stream, conf, turn>>

NextVS ==
  \/ VS_store_conversation
  \/ VS_search_similar_conversations

SpecVS == InitVS /\ [][NextVS]_vars

(***************************************************************************)
(* Properties of the similarity cache (checked under SpecVS).              *)
(***************************************************************************)

\* the records of docs whose message lies within 0.98 of text
NearDuplicates(docs, text) ==
  {i \in 1..Len(docs) :
     Above(cosine_similarity(Embed(text), Embed(docs[i].user_message)), DuplicateThreshold)}

\* C7 (as stated): a store_conversation call with success true, a non-empty
\* outcome id and a message within 0.98 of a record already stored inserts
\* nothing and returns the identity of such a record, on the indexed path
\* and on the fallback path.
C7_store_twice_one_record ==
  ( /\ last.op = "store_conversation"
    /\ last.is_successful
    /\ TruthyId(last.schedule_id)
    /\ NearDuplicates(last.before, last.text) # {} )
  => /\ cache = last.before
     /\ \E i \in NearDuplicates(last.before, last.text) : last.ret = <<last.before[i].id>>

(***************************************************************************)
(* The request handlers of main.py (Spec).  The handlers run on one event  *)
(* loop: a handler is interrupted only where it yields or awaits, so       *)
(* _process_chat and delete_session are one step each, the /chat/stream    *)
(* generator is a step per stretch between two yields, and /confirm is     *)
(* the stretch before and the stretch after the call to the Go API.        *)
(***************************************************************************)
Messages == {<<>>, MsgFull}     \* request.message: empty, or every slot at once

UserAllowLists == {None, Some(<<MERCHANT001>>), Some(<<FINPAY770>>)}

ChatModels == {"TRAINING_MODEL", "PRODUCTION_MODEL"}   \* /chat/train and /chat

ChatOps == {"_process_chat", "/chat/stream"}

RequestSessionIds == {None} \cup {Some(s) : s \in SessionIds}

Reply == <<"reply">>     \* the text the AI agent answers with

NoStore == [called |-> FALSE]

\* a call of store_conversation as the handler step saw it
Stored(is_successful, schedule_id, r, before) ==
  [called |-> TRUE, is_successful |-> is_successful, schedule_id |-> schedule_id,
   ret |-> r.ret, grew |-> r.cache # before]

\* what a handler step read, decided and wrote; fault: a call to the
\* similarity cache or to the chat history log failed during the step
Turn(op, sid, stage, message, allowed, hit, parsed, entities, before, after, store) ==
  [op |-> op, sid |-> sid, stage |-> stage, message |-> message, allowed |-> allowed,
   hit |-> hit, parsed |-> parsed, entities |-> entities, before |-> before,
   after |-> after, store |-> store, fault |-> FALSE]

\* the step record of a step during which such a call failed
WithFault(t, fault) == [t EXCEPT !.fault = fault]

\* entity_parser.parse_message on the requests of the model, computed once
Parsed == [m \in Messages |-> [a \in UserAllowLists |-> parse_message(m, a)]]

\* entity_parser._extract_merchant_id on the messages of the model
NamedMerchant == [m \in Messages |-> extract_merchant_id(m)]

\* session["collected_data"] of a session that may be gone
SlotsOf(ss, sid) == IF sid \in DOMAIN ss THEN ss[sid].collected_data ELSE EmptyDict

\* "if not request.session_id: create_session(...) else: get_session(...)"
WithSession(ss, session_id, sid) ==
  IF session_id = None
  THEN DictUpdate(ss, [k \in {sid} |-> NewSession("u", "id")])
  ELSE ss

\* the ids the request can end up with: a fresh uuid4, or the one it names
SessionChoices(session_id) ==
  IF session_id = None THEN ApiSessionIds \ used ELSE {session_id[1]}

\* cached_convo["conversation"].get("collected_data", {})
cached_data(cached_convo) ==
  IF "collected_data" \in DOMAIN cached_convo.conversation
  THEN cached_convo.conversation.collected_data
  ELSE EmptyDict

\* the entities of _process_chat: the cached ones on a hit, else the parser's
ChatEntities(similar_convos, message) ==
  IF similar_convos # <<>>
  THEN cached_data(similar_convos[1])
  ELSE Parsed[message][None]

\* "if entities: update_session(collected_data=entities)" and
\* add_message(session_id, "user", message)
MergeTurn(ss, sid, entities, message) ==
  add_message(IF entities # EmptyDict
              THEN update_session(ss, sid, entities, None, "", None).sessions
              ELSE ss,
              sid, "user", message).sessions

\* update_session(next_action=determine_next_action(), is_complete=...) on
\* the sessions check_completeness left
SetFlags(c, sid) ==
  update_session(c.sessions, sid, EmptyDict, None,
                 determine_next_action(c.sessions, sid), Some(c.ret)).sessions

\* the end of a turn with determine_next_action ahead of check_completeness
CloseTurn_action_first(ss, sid, ai_response) ==
  LET replied == add_message(ss, sid, "assistant", ai_response).sessions
      c == check_completeness(replied, sid)
  IN update_session(c.sessions, sid, EmptyDict, None, determine_next_action(replied, sid),
                    Some(c.ret)).sessions

\* add_message(assistant), check_completeness, determine_next_action, update_session
CloseTurn(ss, sid, ai_response) ==
  SetFlags(check_completeness(add_message(ss, sid, "assistant", ai_response).sessions, sid),
           sid)

\* _process_chat with the merge undone when a call to the cache failed
ChatDone_rolling_back(sid, ss, message, allowed, hit, entities, ai_ok, fault) ==
  LET merged == MergeTurn(ss, sid, IF fault THEN EmptyDict ELSE entities, message)
      final  == IF ai_ok THEN CloseTurn(merged, sid, Reply) ELSE merged
  IN /\ sessions' = final
     /\ turn' = WithFault(Turn("_process_chat", sid, IF ai_ok THEN "done" ELSE "failed",
                               message, allowed, hit, ~hit, entities, SlotsOf(ss, sid),
                               SlotsOf(final, sid), NoStore),
                          fault)

\* _process_chat from the entities on: ai_agent.chat may raise, which ends
\* the handler after the merge
ChatDone(sid, ss, message, allowed, hit, entities, ai_ok, fault) ==
  LET merged == MergeTurn(ss, sid, entities, message)
      final  == IF ai_ok THEN CloseTurn(merged, sid, Reply) ELSE merged
  IN /\ sessions' = final
     /\ turn' = WithFault(Turn("_process_chat", sid, IF ai_ok THEN "done" ELSE "failed",
                               message, allowed, hit, ~hit, entities, SlotsOf(ss, sid),
                               SlotsOf(final, sid), NoStore),
                          fault)

\* _process_chat from the cache lookup on
ChatStep(sid, ss, message, allowed, similar_convos, ai_ok, fault) ==
  ChatDone(sid, ss, message, allowed, similar_convos # <<>>,
           ChatEntities(similar_convos, message), ai_ok, fault)

\* a lookup fails when the embedding call raises, or when the aggregation
\* and the scan it falls back to both raise
Failing(env) == ~env.embed_ok \/ (~env.index_ok /\ ~env.scan_ok)

\* what search_similar_conversations(message, top_k=1) can return, Ollama and
\* MongoDB working (fault FALSE) or failing (fault TRUE)
Lookups(message, fault) ==
  {search_similar_conversations(cache, message, 1, env) :
     env \in {e \in SearchEnvs : Failing(e) = fault}}

\* what store_conversation can do and return, Ollama and MongoDB working or failing
Stores(session_id, user_message, collected_data, schedule_id, is_successful) ==
  {store_conversation(cache, session_id, user_message, collected_data, schedule_id,
                      is_successful, env) : env \in StoreEnvs}

Init ==
  /\ sessions = EmptyDict
  /\ used = {}
  /\ last = NoCall
  /\ fn = NoFn
  /\ Unused

\* POST /chat and POST /chat/train: _process_chat(request, model)
Chat ==
  \E message \in Messages, fault \in BOOLEAN :
  \E similar_convos \in Lookups(message, fault) :
  \E model \in ChatModels, session_id \in RequestSessionIds, allowed \in UserAllowLists,
     ai_ok \in BOOLEAN :
    IF session_id # None /\ session_id[1] \notin DOMAIN sessions
    THEN /\ turn' = Turn("_process_chat", session_id[1], "not_found", message, allowed,
                         FALSE, FALSE, EmptyDict, EmptyDict, EmptyDict, NoStore)
         /\ UNCHANGED <<sessions, used, last, fn, cache, stream, conf>>
    ELSE \E sid \in SessionChoices(session_id) :
           /\ Len(WithSession(sessions, session_id, sid)[sid].conversation_history)
                < MaxHistory
           /\ ChatStep(sid, WithSession(sessions, session_id, sid), message, allowed,
                       similar_convos, ai_ok, fault)
           /\ used' = used \cup {sid}
           /\ UNCHANGED <<last, fn, cache, stream, conf>>

\* POST /chat/stream up to the "Checking cache..." status event
Stream_begin ==
  /\ stream.pc = "idle"
  /\ \E session_id \in RequestSessionIds, message \in Messages, allowed \in UserAllowLists :
       IF session_id # None /\ session_id[1] \notin DOMAIN sessions
       THEN /\ turn' = Turn("/chat/stream", session_id[1], "not_found", message, allowed,
                            FALSE, FALSE, EmptyDict, EmptyDict, EmptyDict, NoStore)
            /\ UNCHANGED <<sessions, used, last, fn, cache, stream, conf>>
       ELSE \E sid \in SessionChoices(session_id) :
              /\ Len(WithSession(sessions, session_id, sid)[sid].conversation_history)
                   < MaxHistory
              /\ sessions' = WithSession(sessions, session_id, sid)
              /\ used' = used \cup {sid}
              /\ stream' = [pc |-> "checking", sid |-> sid, message |-> message,
                            allowed |-> allowed, hit |-> FALSE, entities |-> EmptyDict]
              /\ turn' = Turn("/chat/stream", sid, "session", message, allowed, FALSE,
                              FALSE, EmptyDict, SlotsOf(sessions', sid),
                              SlotsOf(sessions', sid), NoStore)
              /\ UNCHANGED <<last, fn, cache, conf>>

\* the cache lookup and parse_message, up to the cache event
Stream_parse ==
  /\ stream.pc = "checking"
  /\ \E fault \in BOOLEAN : \E similar_convos \in Lookups(stream.message, fault) :
       /\ stream' = [stream EXCEPT
                       !.pc = "parsed",
                       !.hit = similar_convos # <<>>,
                       !.entities = Parsed[stream.message][stream.allowed]]
       /\ turn' = WithFault(Turn("/chat/stream", stream.sid, "parsed", stream.message,
                                 stream.allowed, stream'.hit, TRUE, stream'.entities,
                                 SlotsOf(sessions, stream.sid),
                                 SlotsOf(sessions, stream.sid), NoStore),
                            fault)
  /\ UNCHANGED <<sessions, used, last, fn, cache, conf>>

\* "_merchant_error" in entities: the error message and the done event
Stream_reject ==
  /\ stream.pc = "parsed"
  /\ "_merchant_error" \in DOMAIN stream.entities
  /\ stream' = NoStream
  /\ turn' = Turn("/chat/stream", stream.sid, "rejected", stream.message, stream.allowed,
                  stream.hit, TRUE, stream.entities, SlotsOf(sessions, stream.sid),
                  SlotsOf(sessions, stream.sid), NoStore)
  /\ UNCHANGED <<sessions, used, last, fn, cache, conf>>

\* the merge without the test for "_merchant_error"
Stream_merge_unguarded ==
  /\ stream.pc = "parsed"
  /\ sessions' = MergeTurn(sessions, stream.sid, stream.entities, stream.message)
  /\ stream' = IF stream.sid \in DOMAIN sessions
               THEN [stream EXCEPT !.pc = "generating"]
               ELSE NoStream
  /\ \E log_ok \in BOOLEAN :
       turn' = WithFault(Turn("/chat/stream", stream.sid,
                              IF stream.sid \in DOMAIN sessions THEN "merged" ELSE "failed",
                              stream.message, stream.allowed, stream.hit, TRUE,
                              stream.entities, SlotsOf(sessions, stream.sid),
                              SlotsOf(sessions', stream.sid), NoStore),
                         ~log_ok)
  /\ UNCHANGED <<used, last, fn, cache, conf>>

\* the merge and the user message, up to the "Generating response..." event;
\* chat_history.add_message logs its own failure and returns; on a session
\* deleted in the meantime session["missing_fields"] raises
Stream_merge ==
  /\ stream.pc = "parsed"
  /\ "_merchant_error" \notin DOMAIN stream.entities
  /\ sessions' = MergeTurn(sessions, stream.sid, stream.entities, stream.message)
  /\ stream' = IF stream.sid \in DOMAIN sessions
               THEN [stream EXCEPT !.pc = "generating"]
               ELSE NoStream
  /\ \E log_ok \in BOOLEAN :
       turn' = WithFault(Turn("/chat/stream", stream.sid,
                              IF stream.sid \in DOMAIN sessions THEN "merged" ELSE "failed",
                              stream.message, stream.allowed, stream.hit, TRUE,
                              stream.entities, SlotsOf(sessions, stream.sid),
                              SlotsOf(sessions', stream.sid), NoStore),
                         ~log_ok)
  /\ UNCHANGED <<used, last, fn, cache, conf>>

\* the chunks of the AI response delivered, then the end of the turn up to
\* the done event; the AI agent may raise, the calls to chat_history log
\* their own failure and return, and on a session deleted in the meantime
\* session["collected_data"] raises
Stream_finish ==
  /\ stream.pc = "generating"
  /\ stream' = NoStream
  /\ \E ai_ok \in BOOLEAN :
       IF ai_ok /\ stream.sid \in DOMAIN sessions
       THEN /\ sessions' = CloseTurn(sessions, stream.sid, Reply)
            /\ \E log_ok \in BOOLEAN :
               \E r \in Stores(stream.sid, stream.message, SlotsOf(sessions', stream.sid),
                               None, FALSE) :
                 /\ cache' = r.cache
                 /\ turn' = WithFault(Turn("/chat/stream", stream.sid, "done",
                                           stream.message, stream.allowed, stream.hit, TRUE,
                                           stream.entities, SlotsOf(sessions, stream.sid),
                                           SlotsOf(sessions', stream.sid),
                                           Stored(FALSE, None, r, cache)),
                                      ~log_ok)
       ELSE /\ sessions' = IF ai_ok
                           THEN CloseTurn(sessions, stream.sid, Reply)
                           ELSE sessions
            /\ turn' = Turn("/chat/stream", stream.sid, "failed", stream.message,
                            stream.allowed, stream.hit, TRUE, stream.entities,
                            SlotsOf(sessions, stream.sid), SlotsOf(sessions', stream.sid),
                            NoStore)
            /\ UNCHANGED cache
  /\ UNCHANGED <<used, last, fn, conf>>

\* a cancellation that empties the slot map of the session
Stream_cancel_undoing ==
  /\ stream.pc \in {"checking", "parsed", "generating"}
  /\ stream' = NoStream
  /\ sessions' = IF stream.sid \in DOMAIN sessions
                 THEN [sessions EXCEPT ![stream.sid].collected_data = EmptyDict]
                 ELSE sessions
  /\ turn' = Turn("/chat/stream", stream.sid,
                  IF stream.pc = "generating" THEN "cancelled" ELSE "disconnected",
                  stream.message, stream.allowed, stream.hit, stream.pc # "checking",
                  stream.entities, SlotsOf(sessions, stream.sid),
                  SlotsOf(sessions', stream.sid), NoStore)
  /\ UNCHANGED <<used, last, fn, cache, conf>>

\* the client goes away while the generator is suspended at a yield: at a
\* chunk of the response ("cancelled"), or at the status or cache event
\* before it ("disconnected")
Stream_cancel ==
  /\ stream.pc \in {"checking", "parsed", "generating"}
  /\ stream' = NoStream
  /\ turn' = Turn("/chat/stream", stream.sid,
                  IF stream.pc = "generating" THEN "cancelled" ELSE "disconnected",
                  stream.message, stream.allowed, stream.hit, stream.pc # "checking",
                  stream.entities, SlotsOf(sessions, stream.sid),
                  SlotsOf(sessions, stream.sid), NoStore)
  /\ UNCHANGED <<sessions, used, last, fn, cache, conf>>

\* re.match(r'^\d+$', s)
AllDigits(s) == s # <<>> /\ \A i \in 1..Len(s) : s[i] \in Digits

\* payload_builder._auto_calculate_date_range(cron_schedule)
auto_calculate_date_range(cron_schedule) ==
  IF cron_schedule = <<>> THEN <<"yesterday">>
  ELSE LET p == Split(cron_schedule)
           five == Len(p) = 5 /\ JoinSpace(p) = cron_schedule
           star == <<"*">>
       IN IF five /\ AllDigits(p[1]) /\ AllDigits(p[2]) /\ p[3] = star /\ p[4] = star
               /\ p[5] = star
          THEN <<"yesterday">>
          ELSE IF five /\ AllDigits(p[1]) /\ AllDigits(p[2]) /\ p[3] = star /\ p[4] = star
                    /\ p[5] \in {<<d>> : d \in {"0", "1", "2", "3", "4", "5", "6"}}
          THEN <<"last_week">>
          ELSE IF five /\ AllDigits(p[1]) /\ AllDigits(p[2]) /\ AllDigits(p[3])
                    /\ p[4] = star /\ p[5] = star
          THEN <<"last_month">>
          ELSE IF \E i \in 1..(Len(cron_schedule) - 1) :
                    cron_schedule[i] = "*" /\ cron_schedule[i + 1] = "/"
          THEN <<"today">>
          ELSE <<"yesterday">>

\* what build_payload(collected_data, user_id) writes to the dict it is
\* handed: the date_range, when the dict has none
build_payload_writes(collected_data) ==
  IF "date_range" \notin DOMAIN collected_data \/ ~Truthy(collected_data["date_range"])
  THEN DictUpdate(collected_data,
                  [k \in {"date_range"} |->
                     auto_calculate_date_range(
                       IF "cron_schedule" \in DOMAIN collected_data
                       THEN collected_data["cron_schedule"] ELSE <<>>)])
  ELSE collected_data

\* a confirm that composes the payload whatever the is_complete flag says
Confirm_begin_unchecked ==
  /\ conf.pc = "idle"
  /\ Len(cache) < MaxDocs
  /\ \E sid \in SessionIds :
       /\ sessions' = IF sid \in DOMAIN sessions
                      THEN [sessions EXCEPT ![sid].collected_data = build_payload_writes(@)]
                      ELSE sessions
       /\ conf' = IF sid \in DOMAIN sessions
                  THEN [pc |-> "posting", sid |-> sid, session |-> sessions'[sid]]
                  ELSE NoConf
       /\ turn' = Turn("/confirm", sid,
                       IF sid \notin DOMAIN sessions THEN "not_found" ELSE "posting",
                       <<>>, None, FALSE, FALSE, EmptyDict, SlotsOf(sessions, sid),
                       SlotsOf(sessions', sid), NoStore)
  /\ UNCHANGED <<used, last, fn, cache, stream>>

\* POST /confirm up to the call of the Go API: the is_complete test, then
\* build_payload on the live slot map of the session
Confirm_begin ==
  /\ conf.pc = "idle"
  /\ Len(cache) < MaxDocs
  /\ \E sid \in SessionIds :
       /\ sessions' = IF sid \in DOMAIN sessions /\ sessions[sid].is_complete
                      THEN [sessions EXCEPT ![sid].collected_data = build_payload_writes(@)]
                      ELSE sessions
       /\ conf' = IF sid \in DOMAIN sessions /\ sessions[sid].is_complete
                  THEN [pc |-> "posting", sid |-> sid, session |-> sessions'[sid]]
                  ELSE NoConf
       /\ turn' = Turn("/confirm", sid,
                       IF sid \notin DOMAIN sessions THEN "not_found"
                       ELSE IF sessions[sid].is_complete THEN "posting" ELSE "incomplete",
                       <<>>, None, FALSE, FALSE, EmptyDict, SlotsOf(sessions, sid),
                       SlotsOf(sessions', sid), NoStore)
  /\ UNCHANGED <<used, last, fn, cache, stream>>

\* the session dict /confirm holds: the live one, or the one that was deleted
HeldSession == IF conf.sid \in DOMAIN sessions THEN sessions[conf.sid] ELSE conf.session

\* session.get("messages", [{}])[0].get("content", "")
first_message(session) ==
  IF "messages" \in DOMAIN session /\ session["messages"] # <<>>
       /\ "content" \in DOMAIN session["messages"][1]
  THEN session["messages"][1]["content"]
  ELSE <<>>

\* POST /confirm from the answer of the Go API on: 200/201 with the
\* schedule_id of its body, or another status, a timeout or an error
Confirm_end ==
  /\ conf.pc = "posting"
  /\ conf' = NoConf
  /\ \E created \in BOOLEAN, schedule_id \in ScheduleIds :
       IF created
       THEN \E r \in Stores(conf.sid, first_message(HeldSession),
                            HeldSession.collected_data, schedule_id, TRUE) :
               /\ cache' = r.cache
               /\ turn' = Turn("/confirm", conf.sid, "created", first_message(HeldSession),
                               None, FALSE, FALSE, EmptyDict, HeldSession.collected_data,
                               HeldSession.collected_data, Stored(TRUE, schedule_id, r, cache))
       ELSE /\ turn' = Turn("/confirm", conf.sid, "failed", <<>>, None, FALSE, FALSE,
                            EmptyDict, HeldSession.collected_data,
                            HeldSession.collected_data, NoStore)
            /\ UNCHANGED cache
  /\ UNCHANGED <<sessions, used, last, fn, stream>>

\* DELETE /sessions/{session_id}; a /confirm in flight keeps the dict it holds
Delete ==
  \E sid \in SessionIds :
    /\ sessions' = delete_session(sessions, sid).sessions
    /\ conf' = IF conf.pc = "posting" /\ conf.sid = sid /\ sid \in DOMAIN sessions
               THEN [conf EXCEPT !.session = sessions[sid]]
               ELSE conf
    /\ turn' = Turn("delete", sid, IF sid \in DOMAIN sessions THEN "deleted" ELSE "not_found",
                    <<>>, None, FALSE, FALSE, EmptyDict, SlotsOf(sessions, sid), EmptyDict,
                    NoStore)
    /\ UNCHANGED <<used, last, fn, cache, stream>>

Next ==
  \/ Chat
  \/ Stream_begin
  \/ Stream_parse
  \/ Stream_reject
  \/ Stream_merge
  \/ Stream_finish
  \/ Stream_cancel
  \/ Confirm_begin
  \/ Confirm_end
  \/ Delete

Spec == Init /\ [][Next]_vars

(***************************************************************************)
(* Properties of the request handlers (checked under Spec).                *)
(***************************************************************************)

\* C2 (as stated, the defaults that check_completeness writes at the end of
\* a turn set aside): after a step of a chat turn whose message names a
\* merchant that the caller's allow-list does not hold, the slot map is the
\* slot map from before the turn.
C2_unauthorized_commits_nothing ==
  (turn.op \in ChatOps /\ NotAllowed(NamedMerchant[turn.message], turn.allowed))
    => turn.after \in {turn.before, FillDefaults(turn.before)}

\* C5 (as stated): on every chat path, a turn that has reached the point
\* where the slot delta is applied has run parse_message on its message,
\* whether the cache lookup hit or not.
C5_parser_always_run ==
  (turn.op \in ChatOps /\ turn.stage \in {"merged", "done", "failed"})
    => turn.parsed

\* C8: every record of the cache was written with success true and a
\* non-empty outcome id, and a store_conversation call without both
\* returned the empty identity and inserted nothing.
C8_quality_gate ==
  /\ \A i \in 1..Len(cache) :
        /\ cache[i].conversation.is_successful
        /\ TruthyId(cache[i].conversation.schedule_id)
  /\ (turn.store.called /\ ~(turn.store.is_successful /\ TruthyId(turn.store.schedule_id)))
       => (turn.store.ret = <<>> /\ ~turn.store.grew)

\* C8 witness: store_conversation has been called without success or without
\* an outcome id, by an environment in which the insert works, while the
\* cache holds a record.
C8_witness ==
  /\ turn.store.called
  /\ ~(turn.store.is_successful /\ TruthyId(turn.store.schedule_id))
  /\ turn.store.ret = <<>>
  /\ cache # <<>>

\* C17: in every reachable state, whatever chat path was taken, the keys of
\* every session's slot map are among the eight schema keys; neither the
\* authorization-error keys nor the keys of a cached record are among them.
C17_schema_keys_only ==
  \A sid \in DOMAIN sessions :
    /\ DOMAIN sessions[sid].collected_data \subseteq SchemaKeys
    /\ DOMAIN sessions[sid].collected_data \cap ErrorKeys = {}
    /\ DOMAIN sessions[sid].collected_data
         \cap {"id", "session_id", "user_message", "conversation", "embedding",
               "similarity", "collected_data"} = {}

\* C17 witness: a streaming turn has been rejected for its merchant id on a
\* session whose slot map an earlier turn has filled.
C17_witness ==
  /\ turn.op = "/chat/stream"
  /\ turn.stage = "rejected"
  /\ DOMAIN turn.entities = ErrorKeys
  /\ turn.sid \in DOMAIN sessions
  /\ sessions[turn.sid].collected_data # EmptyDict
  /\ DOMAIN sessions[turn.sid].collected_data \subseteq SchemaKeys

\* C18: in a streaming turn the chunk loop is entered only by the step that
\* has parsed the message, merged the delta into the slot map and appended
\* the user turn; a cancellation at a chunk changes neither the sessions
\* (slot maps and turn histories) nor the cache.
C18_merge_precedes_chunks ==
  [][/\ (stream'.pc = "generating" /\ stream.pc # "generating") =>
          LET sid    == stream.sid
              delta  == stream.entities
              before == SlotsOf(sessions, sid)
              after  == SlotsOf(sessions', sid)
          IN /\ stream.pc = "parsed"
             /\ turn'.stage = "merged"
             /\ turn'.parsed
             /\ sid \in DOMAIN sessions'
             /\ DOMAIN after = DOMAIN before \cup DOMAIN delta
             /\ \A k \in DOMAIN delta : after[k] = delta[k]
             /\ \A k \in DOMAIN before \ DOMAIN delta : after[k] = before[k]
             /\ sessions'[sid].conversation_history
                  = Append(sessions[sid].conversation_history,
                           [role |-> "user", content |-> stream.message])
     /\ (stream.pc = "generating" /\ turn'.op = "/chat/stream" /\ turn'.stage = "cancelled")
          => (sessions' = sessions /\ cache' = cache)]_vars

\* C18 witness: a streaming turn has been cancelled at a chunk, and the
\* session still holds the delta in its slot map and the user turn at the
\* end of its history.
C18_witness ==
  /\ turn.op = "/chat/stream"
  /\ turn.stage = "cancelled"
  /\ turn.entities # EmptyDict
  /\ turn.sid \in DOMAIN sessions
  /\ \A k \in DOMAIN turn.entities : /\ k \in DOMAIN sessions[turn.sid].collected_data
                                      /\ sessions[turn.sid].collected_data[k] = turn.entities[k]
  /\ LET h == sessions[turn.sid].conversation_history
     IN h # <<>> /\ h[Len(h)] = [role |-> "user", content |-> turn.message]

\* the slot map `after` holds every key of the delta with the delta's value
HoldsDelta(after, delta) ==
  /\ DOMAIN delta \subseteq DOMAIN after
  /\ \A k \in DOMAIN delta : after[k] = delta[k]

FirstUserMessage(history) ==
  LET users == SelectSeq(history, LAMBDA m : m.role = "user")
  IN IF users = <<>> THEN <<>> ELSE users[1].content

\* C24 (as stated): the similarity record written by a successful confirm
\* carries as its message text the first user message of the session,
\* together with the session's slot map and the outcome id.
C24_record_carries_first_message ==
  (turn.op = "/confirm" /\ turn.stage = "created" /\ turn.store.grew
     /\ turn.sid \in DOMAIN sessions) =>
    LET doc == cache[Len(cache)]
    IN /\ doc.session_id = turn.sid
       /\ doc.user_message = FirstUserMessage(sessions[turn.sid].conversation_history)
       /\ doc.conversation.collected_data = sessions[turn.sid].collected_data
       /\ doc.conversation.schedule_id = turn.store.schedule_id

\* C25 (as stated): the steps of two message turns of the same session never
\* interleave: while a streaming turn is between its merge and its end no
\* step of another turn of that session runs, so when a turn ends the last
\* two entries of the turn history are its user message and its reply.
C25_turns_do_not_interleave ==
  [][/\ ~(stream.pc = "generating" /\ turn'.op = "_process_chat"
            /\ turn'.sid = stream.sid /\ turn'.stage \in {"done", "failed"})
     /\ (turn'.op \in ChatOps /\ turn'.stage = "done" /\ turn'.sid \in DOMAIN sessions') =>
          LET h == sessions'[turn'.sid].conversation_history
          IN /\ Len(h) >= 2
             /\ h[Len(h) - 1] = [role |-> "user", content |-> turn'.message]
             /\ h[Len(h)] = [role |-> "assistant", content |-> Reply]]_vars

\* C26 (as stated): at the end of every handled message on an existing
\* session, a streaming turn cancelled at a chunk included, the stored
\* is_complete equals check_completeness on the current slot map and the
\* stored next_action equals determine_next_action on it.
C26_flags_follow_slots ==
  (turn.op \in ChatOps /\ turn.stage \in {"done", "cancelled"}
     /\ turn.sid \in DOMAIN sessions) =>
    /\ sessions[turn.sid].is_complete = check_completeness(sessions, turn.sid).ret
    /\ sessions[turn.sid].next_action = determine_next_action(sessions, turn.sid)

\* merchant_id, output_format, cron_schedule and email_recipients are keys
\* of the slot map with non-empty values
HoldsRequired(collected) ==
  \A f \in {"merchant_id", "output_format", "cron_schedule", "email_recipients"} :
     f \in DOMAIN collected /\ collected[f] # <<>>

\* every session stored as complete holds the required slots
CompleteHoldsRequired ==
  \A sid \in DOMAIN sessions :
     sessions[sid].is_complete => HoldsRequired(sessions[sid].collected_data)

\* C27: confirm hands a slot map to the payload composer only when the
\* stored is_complete flag of the session is true, and in every reachable
\* state a session with that flag true holds non-empty values for
\* merchant_id, output_format, cron_schedule and email_recipients; with the
\* flag false confirm returns its failure result, composes no payload and
\* writes nothing to the cache.
C27_confirm_gated ==
  [][/\ CompleteHoldsRequired'
     /\ (turn'.op = "/confirm" /\ turn'.stage = "posting") =>
          /\ turn'.sid \in DOMAIN sessions
          /\ sessions[turn'.sid].is_complete
          /\ HoldsRequired(turn'.before)
          /\ conf'.pc = "posting"
     /\ (conf.pc = "idle" /\ conf'.pc = "posting") =>
          (conf'.sid \in DOMAIN sessions /\ sessions[conf'.sid].is_complete)
     /\ (turn'.op = "/confirm" /\ turn'.stage = "incomplete") =>
          /\ ~sessions[turn'.sid].is_complete
          /\ conf' = NoConf
          /\ sessions' = sessions
          /\ cache' = cache
          /\ ~turn'.store.called]_vars

\* confirm composes the payload of a complete session
C27_witness ==
  /\ turn.op = "/confirm"
  /\ turn.stage = "posting"
  /\ conf.pc = "posting"
  /\ conf.sid \in DOMAIN sessions
  /\ sessions[conf.sid].is_complete
  /\ HoldsRequired(turn.before)
  /\ "date_range" \notin DOMAIN turn.before
  /\ turn.after["date_range"] = <<"last_week">>

\* C28: no operation other than delete_session removes a key from the slot
\* map of a session, and parse_message emits non-empty values only, so
\* once check_completeness returns true for a session it returns true in
\* every later state of that session.
C28_complete_stays_complete ==
  [][/\ \A sid \in DOMAIN sessions :
          IF sid \in DOMAIN sessions'
          THEN /\ DOMAIN sessions[sid].collected_data
                    \subseteq DOMAIN sessions'[sid].collected_data
               /\ check_completeness(sessions, sid).ret
                    => check_completeness(sessions', sid).ret
          ELSE turn'.op = "delete" /\ turn'.sid = sid
     /\ (turn'.parsed /\ turn'.stage # "not_found") =>
          \A k \in DOMAIN turn'.entities : turn'.entities[k] # <<>>]_vars

\* a delta is merged into the slot map of a session that was complete, and
\* the session is complete afterwards
C28_witness ==
  /\ turn.op = "/chat/stream"
  /\ turn.stage = "merged"
  /\ turn.entities # EmptyDict
  /\ HoldsRequired(turn.before)
  /\ turn.sid \in DOMAIN sessions
  /\ sessions[turn.sid].is_complete
  /\ check_completeness(sessions, turn.sid).ret

\* C29: check_completeness runs before determine_next_action, so after a
\* turn that runs to its end the stored next_action is ask_merchant,
\* ask_format, ask_schedule, ask_recipients or confirm, and never
\* ask_report_type or ask_status, also when the user named neither a report
\* type nor a status filter.
C29_no_optional_prompt ==
  (turn.op \in ChatOps /\ turn.stage = "done" /\ turn.sid \in DOMAIN sessions) =>
    /\ sessions[turn.sid].next_action
         \in {"ask_merchant", "ask_format", "ask_schedule", "ask_recipients", "confirm"}
    /\ {"report_type", "status_filter"} \subseteq DOMAIN sessions[turn.sid].collected_data

\* the first turn of a session names a merchant but neither a report type nor
\* a status filter, and ends with the next action confirm
C29_witness ==
  /\ turn.op \in ChatOps
  /\ turn.stage = "done"
  /\ turn.sid \in DOMAIN sessions
  /\ "merchant_id" \in DOMAIN turn.entities
  /\ DOMAIN turn.entities \cap {"report_type", "status_filter"} = {}
  /\ DOMAIN turn.before \cap {"report_type", "status_filter"} = {}
  /\ sessions[turn.sid].next_action = "confirm"

(***************************************************************************)
(* _extract_cron and _extract_schedule applied to schedule phrases         *)
(* (SpecSched).  A message is a head phrase, a tail phrase, or both; the   *)
(* text is lower case, as parse_message hands it over.                     *)
(***************************************************************************)
SchedHeads ==
  { <<>>,
    <<"kamis">>,
    <<"kamis", " ", "jam", " ", "8">>,
    <<"setiap", " ", "hari", " ", "kamis", " ", "jam", " ", "8">>,
    <<"setiap", " ", "5", " ", "menit">>,
    <<"setiap", " ", "2", " ", "jam">>,
    <<"setiap", " ", "tanggal", " ", "5">>,
    <<"0", ",", ",", " ", "1", " ", "2", " ", "3", " ", "4">>,
    <<"1", "-", "5", " ", "8", " ", "*", " ", "*", " ", "1">>,
    <<"0", " ", "8", " ", "*", " ", "*", " ", "4">>,
    <<"setiap", " ", "pagi">>,
    <<"halo">> }

SchedTails ==
  { <<>>,
    <<"setiap", " ", "hari", " ", "jam", " ", "9">>,
    <<"every", " ", "day", " ", "at", " ", "7">>,
    <<"kecuali", " ", "minggu">>,
    <<"senin">>,
    <<"malam">>,
    <<"jam", " ", "1", "0">>,
    <<"wib">>,
    <<"ya">> }

\* the priority (the name of the rule family) that gives the result of
\* _extract_cron(message): the family of the first matching pattern, else
\* the day-part fallback, else none
extract_cron_rule(message) ==
  LET m == FirstMatch(cron_rules, message)
  IN IF m.ok THEN (IF RuleOf(m).g \in {"dh", "d", "h"} THEN "monthly" ELSE RuleOf(m).g)
     ELSE IF DayPart(message) # <<>> THEN "daypart"
     ELSE "none"

InitSched ==
  /\ sessions = EmptyDict
  /\ used = {}
  /\ last = NoCall
  /\ Unused
  /\ \E head \in SchedHeads, tail \in SchedTails :
       fn = [stage |-> "input", message |-> Message(head, tail), rule |-> "none",
             out |-> <<>>]

\* entity_parser._extract_cron(message)
Sched_extract_cron ==
  /\ fn.stage = "input"
  /\ fn' = [fn EXCEPT !.stage = "extracted", !.rule = extract_cron_rule(fn.message),
                      !.out = extract_cron(fn.message)]
  /\ UNCHANGED <<cmVars, cache, stream, conf, turn>>

\* entity_parser._extract_schedule(message): the empty dict for None
Sched_extract_schedule ==
  /\ fn.stage = "input"
  /\ fn' = [fn EXCEPT !.stage = "scheduled", !.out = extract_schedule(fn.message)]
  /\ UNCHANGED <<cmVars, cache, stream, conf, turn>>

NextSched ==
  \/ Sched_extract_cron
  \/ Sched_extract_schedule

SpecSched == InitSched /\ [][NextSched]_vars

(***************************************************************************)
(* Properties of the text-to-expression rules (checked under SpecSched).   *)
(***************************************************************************)

\* C11 (as stated): for every message that contains a weekday keyword,
\* _extract_cron never returns a plain daily expression produced by the
\* daily-hour rule.
C11_daily_only_without_weekday ==
  (fn.stage = "extracted" /\ AnyIn(day_keywords, lower(fn.message)))
    => fn.rule # "daily"

\* the seven priorities of _extract_cron, highest first
PriorityOrder == <<"direct", "minutes", "hours", "weekday", "daily", "monthly", "daypart">>

\* the priority a pattern of cron_rules belongs to
FamilyOfRule(rule) == IF rule.g \in {"dh", "d", "h"} THEN "monthly" ELSE rule.g

\* the patterns of one priority, in the order of their list
FamilyPatterns(name) == SelectSeq(cron_rules, LAMBDA rule : FamilyOfRule(rule) = name)

\* the first match among the patterns pats, as an expression (<<>>: none)
FirstOfFamily(pats, message) ==
  LET m == FirstMatch(pats, message)
  IN IF m.ok THEN CronOf(m, pats[m.idx], message) ELSE <<>>

\* what the block of one priority returns when it is reached (<<>>: it falls
\* through to the next block)
FamilyResult(name, message) ==
  IF name = "daypart" THEN DayPart(message)
  ELSE FirstOfFamily(FamilyPatterns(name), message)

\* the priorities whose block matches the message, as indexes of PriorityOrder
MatchingPriorities(message) ==
  {i \in 1..Len(PriorityOrder) : FamilyResult(PriorityOrder[i], message) # <<>>}

\* C12: the result of _extract_cron is the result of the highest-priority
\* rule that matches, in the order literal expression, every-N-minutes,
\* every-N-hours, weekday+hour, daily-hour, monthly, day-part; "setiap hari
\* kamis jam 8" gives "0 8 * * 4"; a message that matches no rule gives no
\* expression.
C12_first_match_wins ==
  fn.stage = "extracted" =>
    LET hits == MatchingPriorities(fn.message)
    IN /\ hits = {} => (fn.out = <<>> /\ fn.rule = "none")
       /\ hits # {} => /\ fn.rule = PriorityOrder[Min(hits)]
                       /\ fn.out = FamilyResult(PriorityOrder[Min(hits)], fn.message)
       /\ fn.message = <<"setiap", " ", "hari", " ", "kamis", " ", "jam", " ", "8">>
            => fn.out = <<"0", " ", "8", " ", "*", " ", "*", " ", "4">>

\* C12 witness: _extract_cron has returned the weekday expression for a
\* message that a weekday+hour pattern and a daily pattern both match.
C12_witness ==
  /\ fn.stage = "extracted"
  /\ FamilyResult("weekday", fn.message) # <<>>
  /\ FamilyResult("daily", fn.message) # <<>>
  /\ fn.rule = "weekday"
  /\ fn.out = FamilyResult("weekday", fn.message)

\* a field of a schedule expression: wildcard, literal integer or step */N
IsScheduleField(f) ==
  \/ f = <<"*">>
  \/ (f # <<>> /\ \A i \in 1..Len(f) : f[i] \in Digits)
  \/ (Len(f) >= 3 /\ f[1] = "*" /\ f[2] = "/" /\ \A i \in 3..Len(f) : f[i] \in Digits)

\* exactly five space-separated fields, each a schedule field
IsScheduleExpression(cron) ==
  /\ Len(Split(cron)) = 5
  /\ cron = JoinSpace(Split(cron))
  /\ \A i \in 1..5 : IsScheduleField(Split(cron)[i])

\* C13 (as stated): every expression that _extract_cron returns, and every
\* cron_schedule value that _extract_schedule hands to the parser, has
\* exactly five space-separated fields, each a wildcard, a literal
\* non-negative integer or a step expression */N.
C13_five_wellformed_fields ==
  /\ (fn.stage = "extracted" /\ fn.out # <<>>) => IsScheduleExpression(fn.out)
  /\ (fn.stage = "scheduled" /\ "cron_schedule" \in DOMAIN fn.out)
       => IsScheduleExpression(fn.out["cron_schedule"])

(***************************************************************************)
(* The similarity cache with records of two sessions whose status          *)
(* update_conversation_status has set (SpecRank).  The three texts lie     *)
(* within 0.85 of each other, so that one search can return two records.   *)
(***************************************************************************)
RankTexts == {<<>>, MsgHello, MsgMerchant}

\* the two paths of a search whose embedding call works: the Atlas index
\* answers, or it raises and the cosine scan answers
RankEnvs ==
  { [embed_ok |-> TRUE, index_ok |-> TRUE, scan_ok |-> TRUE],
    [embed_ok |-> TRUE, index_ok |-> FALSE, scan_ok |-> TRUE] }

InitRank ==
  /\ sessions = EmptyDict
  /\ used = {}
  /\ last = NoCall
  /\ fn = NoFn
  /\ Unused

\* store_conversation(session_id, user_message, collected_data, 7, True)
Rank_store_conversation ==
  \E sid \in SessionIds, text \in RankTexts :
  \E r \in Stores(sid, text, SomeData, Some(7), TRUE) :
    /\ Len(cache) < MaxDocs
    /\ cache' = r.cache
    /\ last' = [op |-> "store_conversation", sid |-> sid, text |-> text, top_k |-> 0,
                env |-> [embed_ok |-> TRUE, index_ok |-> TRUE, scan_ok |-> TRUE],
                ret |-> r.ret]
    /\ UNCHANGED <<sessions, used, fn, stream, conf, turn>>

\* update_conversation_status(session_id, 7, is_successful)
Rank_update_conversation_status ==
  \E sid \in SessionIds, is_successful \in BOOLEAN :
    /\ cache' = update_conversation_status(cache, sid, 7, is_successful, TRUE)
    /\ last' = [op |-> "update_conversation_status", sid |-> sid, text |-> <<>>,
                top_k |-> 0,
                env |-> [embed_ok |-> TRUE, index_ok |-> TRUE, scan_ok |-> TRUE],
                ret |-> <<>>]
    /\ UNCHANGED <<sessions, used, fn, stream, conf, turn>>

\* search_similar_conversations(user_message, top_k)
Rank_search_similar_conversations ==
  \E text \in RankTexts, top_k \in 1..MaxDocs, env \in RankEnvs :
    /\ last' = [op |-> "search_similar_conversations", sid |-> "", text |-> text,
                top_k |-> top_k, env |-> env,
                ret |-> search_similar_conversations(cache, text, top_k, env)]
    /\ UNCHANGED <<sessions, used, fn, cache, stream, conf, turn>>

NextRank ==
  \/ Rank_store_conversation
  \/ Rank_update_conversation_status
  \/ Rank_search_similar_conversations

SpecRank == InitRank /\ [][NextRank]_vars

(***************************************************************************)
(* Properties of the search (checked under SpecRank).                      *)
(***************************************************************************)

\* C19 (as stated): search_similar_conversations(message, k) returns at most
\* k results, each with similarity at or above the threshold, ordered by
\* success flag first (no record marked unsuccessful before a record marked
\* successful) and by similarity descending among records with the same
\* flag, on the indexed path and on the fallback path.
C19_search_ranked ==
  last.op = "search_similar_conversations" =>
    /\ Len(last.ret) <= last.top_k
    /\ \A i \in 1..Len(last.ret) : AtLeast(last.ret[i].similarity, SimilarityThreshold)
    /\ \A i \in 1..Len(last.ret) : \A j \in (i + 1)..Len(last.ret) :
         /\ ~(TopFlag(last.ret[i].conversation) = 1 /\ TopFlag(last.ret[j].conversation) = 2)
         /\ TopFlag(last.ret[i].conversation) = TopFlag(last.ret[j].conversation)
              => ~MoreSimilar(last.ret[j], last.ret[i])

====
